---- MODULE Spec2Model ----
(***************************************************************************)
(* Differential state and alert engine of the security monitoring agent:   *)
(* StateManager (agent/state/manager.py) and the diff/alert logic of       *)
(* CollectorManager (agent/collectors/manager.py).                         *)
(*                                                                         *)
(* Time is counted in minutes.  Measured values are integers in            *)
(* hundredths (load1 2.50 is 250, 90.5 % is 9050).                         *)
(***************************************************************************)
EXTENDS Integers, Naturals, Sequences, FiniteSets, TLC

VARIABLES
    disk,    \* content of state.json in the state directory
    state,   \* self.state of the StateManager instance in use
    now,     \* the wall clock, in minutes
    ret,     \* what the last operation returned
    last_run,\* content of last-run.json
    ops,     \* operations performed so far
    fired,   \* history of the direct should_alert calls: for each alert key
             \* of the StateManager in use, when should_alert last returned
             \* true and how many calls it has suppressed
    pc,      \* overlapping invocations: where each process is
    mem,     \* overlapping invocations: self.state of each process
    obs,     \* overlapping invocations: what each process saw when it read state.json
    snap     \* overlapping invocations: the snapshot each process collected

vars == <<disk, state, now, ret, last_run, ops, fired, pc, mem, obs, snap>>

-----------------------------------------------------------------------------
(* Bounds of the model *)

MaxTime == 62
MaxRuns == 2
MaxOps == 3
MaxUsb == 2
MaxAdded == 102

(* Program constants *)

DefaultTtlHours == 1
DefaultCleanupDays == 30
UsbCap == 100
CpuLoad1Threshold == 200
MemoryPctThreshold == 9000
DiskPctThreshold == 8500
IowaitPctThreshold == 2000
HighRiskPorts == {23, 21, 135, 139, 445, 1433, 3389}

-----------------------------------------------------------------------------
(* Values *)

None == <<>>
Some(x) == <<x>>

Range(s) == {s[i] : i \in DOMAIN s}

\* every listing of the finite set S without repetition: the iteration
\* order of a Python set is not fixed
Orderings(S) == {s \in [1..Cardinality(S) -> S] : Range(s) = S}

MapPut(f, k, v) == [x \in DOMAIN f \cup {k} |-> IF x = k THEN v ELSE f[x]]

MapRemove(f, ks) == [x \in DOMAIN f \ ks |-> f[x]]

\* datetime.isoformat(): the calendar date and the time of day
IsoFormat(t) == [date |-> t \div 1440, minute |-> t % 1440]

\* datetime.fromisoformat()
FromIsoFormat(s) == s.date * 1440 + s.minute

\* timedelta(hours=h), timedelta(days=d)
TimeDeltaHours(h) == h * 60
TimeDeltaDays(d) == d * 1440

\* f"{x:.1f}" of a value given in hundredths: the value in tenths, rounded
\* to the nearest (no measured value used below lies halfway between two)
Fmt1(x) == (x + 5) \div 10

\* an alert key: the text before the measured value, the mount or service
\* name embedded in it, and the formatted measured value (-1: none)
AlertKey(id, name, mag) == [id |-> id, name |-> name, mag |-> mag]

-----------------------------------------------------------------------------
(* StateManager *)

_get_empty_state ==
    [ last_update |-> None,
      open_ports  |-> <<>>,
      interfaces  |-> <<>>,
      alerts      |-> <<>>,
      usb_events  |-> <<>>,
      baseline    |-> <<>> ]

\* state.json: absent, or a file whose text is complete JSON ("complete"),
\* empty ("empty", just truncated) or a strict prefix of JSON ("partial")
Absent == [kind |-> "absent"]
File(kind, doc) == [kind |-> kind, doc |-> doc]

\* json.dump of a dict: its members one after the other.  (Python writes
\* them in insertion order; json.load builds the same dict from any order.)
RECURSIVE Members(_)
Members(f) ==
    IF DOMAIN f = {} THEN <<>>
    ELSE LET k == CHOOSE x \in DOMAIN f : TRUE
         IN  <<[key |-> k, value |-> f[k]]>> \o Members(MapRemove(f, {k}))

\* FromMembers without the last member of the object
FromMembersButLast(members) ==
    [ k \in {members[i].key : i \in 1..(Len(members) - 1)} |->
        LET last == CHOOSE i \in 1..(Len(members) - 1) :
                        /\ members[i].key = k
                        /\ \A j \in (i + 1)..(Len(members) - 1) : members[j].key # k
        IN  members[last].value ]

\* json.load of an object: the dict of its members, a key that occurs
\* twice keeping its last value
FromMembers(members) ==
    [ k \in {members[i].key : i \in DOMAIN members} |->
        LET last == CHOOSE i \in DOMAIN members :
                        /\ members[i].key = k
                        /\ \A j \in (i + 1)..Len(members) : members[j].key # k
        IN  members[last].value ]

\* json.dump(self.state): the document written to state.json.  Lists,
\* texts, numbers and null are written as they are, dicts as objects
JsonDump(st) ==
    [ last_update |-> st.last_update,
      open_ports  |-> st.open_ports,
      interfaces  |-> Members(st.interfaces),
      alerts      |-> Members(st.alerts),
      usb_events  |-> st.usb_events,
      baseline    |-> st.baseline ]

\* json.load of a document: a state document gives the state dict, the
\* document {} the dict {}
JsonLoad(doc) ==
    IF doc = <<>> THEN <<>>
    ELSE [ last_update |-> doc.last_update,
           open_ports  |-> doc.open_ports,
           interfaces  |-> FromMembers(doc.interfaces),
           alerts      |-> FromMembers(doc.alerts),
           usb_events  |-> doc.usb_events,
           baseline    |-> doc.baseline ]

_load_state(file) ==
    IF file.kind = "complete" THEN JsonLoad(file.doc) ELSE _get_empty_state

\* StoredDelta with an unseen interface counted from zero
StoredDeltaFromZero(interfaces, iface, counter) ==
    iface[counter]
    - (IF iface.name \in DOMAIN interfaces
       THEN interfaces[iface.name][counter] ELSE 0)

\* save_state, lines 70-76: the delta of one counter ("rx_bytes" or
\* "tx_bytes") of iface against the stored reading of that interface
StoredDelta(interfaces, iface, counter) ==
    IF iface.name \in DOMAIN interfaces
    THEN iface[counter] - interfaces[iface.name][counter]
    ELSE 0

\* save_state, lines 68-78: the interface counters and their deltas
RECURSIVE StoreInterfaces(_, _)
StoreInterfaces(interfaces, ifaces) ==
    IF ifaces = <<>> THEN interfaces
    ELSE LET iface == Head(ifaces)
             stored ==
                 [ rx_bytes |-> iface.rx_bytes,
                   tx_bytes |-> iface.tx_bytes,
                   rx_delta |-> StoredDelta(interfaces, iface, "rx_bytes"),
                   tx_delta |-> StoredDelta(interfaces, iface, "tx_bytes") ]
         IN  StoreInterfaces(MapPut(interfaces, iface.name, stored), Tail(ifaces))

\* BaselineDue with the baseline taken on every save
BaselineDueAlways(st) == TRUE

\* whether save_state takes the open ports of this run as the baseline:
\* the test of line 81, made after line 61 has set last_update
BaselineDue(st) == st.last_update = None

\* save_state, lines 61-82: what it does to self.state.  new_data is
\* [has_network, open_ports, interfaces]
save_state(st, new_data, t) ==
    LET s1 == [st EXCEPT !.last_update = Some(IsoFormat(t))]
        s2 == IF new_data.has_network
              THEN [s1 EXCEPT !.open_ports = new_data.open_ports,
                              !.interfaces = StoreInterfaces(@, new_data.interfaces)]
              ELSE s1
    IN  IF BaselineDue(s2) THEN [s2 EXCEPT !.baseline = s2.open_ports] ELSE s2

PortSet(ports) == {<<ports[i].proto, ports[i].port>> : i \in DOMAIN ports}

PortDict(p) == [proto |-> p[1], port |-> p[2]]

\* get_port_deltas with every baseline port reported closed
get_port_deltas_all_closed(st, current_ports) ==
    LET baseline_set == PortSet(st.baseline)
        current_set == PortSet(current_ports)
    IN  [ new_open_ports |-> {PortDict(p) : p \in current_set \ baseline_set},
          closed_ports   |-> {PortDict(p) : p \in baseline_set} ]

\* the two lists are built from Python sets: they are given here as sets
get_port_deltas(st, current_ports) ==
    LET baseline_set == PortSet(st.baseline)
        current_set == PortSet(current_ports)
    IN  [ new_open_ports |-> {PortDict(p) : p \in current_set \ baseline_set},
          closed_ports   |-> {PortDict(p) : p \in baseline_set \ current_set} ]

\* get_interface_deltas, lines 123-129: the delta of one counter
ReportedDelta(interfaces, iface, counter) ==
    IF iface.name \in DOMAIN interfaces
    THEN iface[counter] - interfaces[iface.name][counter]
    ELSE 0

get_interface_deltas(st, current_interfaces) ==
    [ i \in DOMAIN current_interfaces |->
        LET iface == current_interfaces[i]
        IN  [ name     |-> iface.name,
              rx_bytes |-> iface.rx_bytes,
              tx_bytes |-> iface.tx_bytes,
              rx_delta |-> ReportedDelta(st.interfaces, iface, "rx_bytes"),
              tx_delta |-> ReportedDelta(st.interfaces, iface, "tx_bytes") ] ]

\* the interface dicts as the network collector builds them
\* (_parse_interface_line): both deltas zero until a delta is assigned
Collected(ifaces) ==
    [ i \in DOMAIN ifaces |->
        [ name     |-> ifaces[i].name,
          rx_bytes |-> ifaces[i].rx_bytes,
          tx_bytes |-> ifaces[i].tx_bytes,
          rx_delta |-> 0,
          tx_delta |-> 0 ] ]

\* get_interface_deltas, lines 120-131: the dicts passed in, as the caller
\* holds them after the call.  The deltas are assigned into the dict passed
\* and that same dict is appended to the result
PassedAfterDeltas(st, current_interfaces) ==
    get_interface_deltas(st, current_interfaces)

\* save_state, lines 68-78: the dicts of new_data["network"]["interfaces"],
\* as the caller holds them after the call
RECURSIVE PassedAfterSave(_, _)
PassedAfterSave(interfaces, ifaces) ==
    IF ifaces = <<>> THEN <<>>
    ELSE LET iface == Head(ifaces)
             after ==
                 [ name     |-> iface.name,
                   rx_bytes |-> iface.rx_bytes,
                   tx_bytes |-> iface.tx_bytes,
                   rx_delta |-> StoredDelta(interfaces, iface, "rx_bytes"),
                   tx_delta |-> StoredDelta(interfaces, iface, "tx_bytes") ]
         IN  <<after>>
             \o PassedAfterSave(StoreInterfaces(interfaces, <<iface>>),
                                Tail(ifaces))

\* LastN with the first n entries kept
FirstN(s, n) == IF Len(s) > n THEN SubSeq(s, 1, n) ELSE s

LastN(s, n) == IF Len(s) > n THEN SubSeq(s, Len(s) - n + 1, Len(s)) ELSE s

add_usb_event(st, event, t) ==
    LET events == Append(st.usb_events, [action |-> event, time |-> IsoFormat(t)])
    IN  [st EXCEPT !.usb_events = LastN(events, UsbCap)]

\* TtlPassed with the distance to the last alert taken in either direction
TtlPassedEitherWay(entry, t, ttl_hours) ==
    LET d == t - FromIsoFormat(entry.last_alert)
    IN  (IF d < 0 THEN -d ELSE d) > TimeDeltaHours(ttl_hours)

\* TtlPassed with the window closed at its last minute
TtlPassedInclusive(entry, t, ttl_hours) ==
    t - FromIsoFormat(entry.last_alert) >= TimeDeltaHours(ttl_hours)

\* whether the suppression window of an entry is over at time t
TtlPassed(entry, t, ttl_hours) ==
    t - FromIsoFormat(entry.last_alert) > TimeDeltaHours(ttl_hours)

\* should_alert: [fire |-> the value returned, state |-> self.state after]
should_alert(st, alert_key, severity, t, ttl_hours) ==
    IF alert_key \notin DOMAIN st.alerts
    THEN [ fire  |-> TRUE,
           state |-> [st EXCEPT !.alerts = MapPut(@, alert_key,
                        [ last_alert |-> IsoFormat(t),
                          severity   |-> severity,
                          count      |-> 1 ])] ]
    ELSE IF TtlPassed(st.alerts[alert_key], t, ttl_hours)
    THEN [ fire  |-> TRUE,
           state |-> [st EXCEPT !.alerts[alert_key].last_alert = IsoFormat(t),
                                !.alerts[alert_key].count = @ + 1] ]
    ELSE [ fire |-> FALSE, state |-> st ]

\* cleanup_old_data with the entries dated at the cutoff removed as well
cleanup_old_data_inclusive(st, days, t) ==
    LET cutoff == t - TimeDeltaDays(days)
        Recent(event) == FromIsoFormat(event.time) > cutoff
        alert_keys_to_remove ==
            {k \in DOMAIN st.alerts : FromIsoFormat(st.alerts[k].last_alert) <= cutoff}
    IN  [st EXCEPT !.usb_events = SelectSeq(@, Recent),
                   !.alerts = MapRemove(@, alert_keys_to_remove)]

cleanup_old_data(st, days, t) ==
    LET cutoff == t - TimeDeltaDays(days)
        Recent(event) == FromIsoFormat(event.time) > cutoff
        alert_keys_to_remove ==
            {k \in DOMAIN st.alerts : FromIsoFormat(st.alerts[k].last_alert) < cutoff}
    IN  [st EXCEPT !.usb_events = SelectSeq(@, Recent),
                   !.alerts = MapRemove(@, alert_keys_to_remove)]

-----------------------------------------------------------------------------
(* CollectorManager *)

Alert(severity, code, evidence) ==
    [severity |-> severity, code |-> code, evidence |-> evidence]

\* _create_port_alert with the high-risk ports looked up for TCP only
_create_port_alert_tcp(port) ==
    IF port.port \in HighRiskPorts /\ port.proto = "tcp"
    THEN Alert("high", "NEW_HIGH_RISK_PORT", [port |-> port.port, proto |-> port.proto])
    ELSE Alert("warn", "NEW_OPEN_PORT", [port |-> port.port, proto |-> port.proto])

_create_port_alert(port) ==
    IF port.port \in HighRiskPorts
    THEN Alert("high", "NEW_HIGH_RISK_PORT", [port |-> port.port, proto |-> port.proto])
    ELSE Alert("warn", "NEW_OPEN_PORT", [port |-> port.port, proto |-> port.proto])

\* the alert keys of the threshold rules
CpuKey(load1) == AlertKey("cpu_load", "", load1)
MemoryKey(memory_pct) == AlertKey("memory_pct", "", Fmt1(memory_pct))
DiskKey(mount, used_pct) == AlertKey("disk_pct", mount, Fmt1(used_pct))
IowaitKey(iowait_pct) == AlertKey("iowait", "", Fmt1(iowait_pct))
WifiKey == AlertKey("wifi_policy_violation", "", -1)
\* the service rule keyed like the Wi-Fi policy rule
ServiceKeyShared(service_name) == WifiKey
ServiceKey(service_name) == AlertKey("high_risk_service", service_name, -1)

\* one rule: when its condition holds, the alert is kept if should_alert
\* admits its key.  acc is [state, alerts]
Rule(acc, breach, alert_key, severity, alert, t) ==
    IF breach
    THEN LET r == should_alert(acc.state, alert_key, severity, t, DefaultTtlHours)
         IN  [ state  |-> r.state,
               alerts |-> IF r.fire THEN Append(acc.alerts, alert) ELSE acc.alerts ]
    ELSE acc

RECURSIVE DiskRules(_, _, _)
DiskRules(acc, disks, t) ==
    IF disks = <<>> THEN acc
    ELSE LET disk1 == Head(disks)
         IN  DiskRules(
                 Rule(acc, disk1.used_pct > DiskPctThreshold,
                      DiskKey(disk1.mount, disk1.used_pct), "warn",
                      Alert("warn", "HIGH_DISK_USAGE",
                            [mount |-> disk1.mount, used_pct |-> disk1.used_pct,
                             threshold |-> DiskPctThreshold]), t),
                 Tail(disks), t)

\* _generate_system_alerts with a value equal to its threshold counted as
\* over it
_generate_system_alerts_inclusive(st, system_data, t) ==
    LET memory_pct == (system_data.used_mb * 10000) \div system_data.total_mb
        disk1 == system_data.disk[1]
        a0 == [state |-> st, alerts |-> <<>>]
        a1 == Rule(a0, system_data.load1 >= CpuLoad1Threshold,
                   CpuKey(system_data.load1), "warn",
                   Alert("warn", "HIGH_CPU_LOAD",
                         [load1 |-> system_data.load1, threshold |-> CpuLoad1Threshold]), t)
        a2 == Rule(a1, memory_pct >= MemoryPctThreshold,
                   MemoryKey(memory_pct), "warn",
                   Alert("warn", "HIGH_MEMORY_USAGE",
                         [used_pct |-> memory_pct, threshold |-> MemoryPctThreshold]), t)
        a3 == Rule(a2, disk1.used_pct >= DiskPctThreshold,
                   DiskKey(disk1.mount, disk1.used_pct), "warn",
                   Alert("warn", "HIGH_DISK_USAGE",
                         [mount |-> disk1.mount, used_pct |-> disk1.used_pct,
                          threshold |-> DiskPctThreshold]), t)
    IN  Rule(a3, system_data.iowait_pct >= IowaitPctThreshold,
             IowaitKey(system_data.iowait_pct), "warn",
             Alert("warn", "HIGH_IO_WAIT",
                   [iowait_pct |-> system_data.iowait_pct,
                    threshold |-> IowaitPctThreshold]), t)

\* _generate_system_alerts, lines 149-158: the CPU load rule
CpuRule(acc, system_data, t) ==
    Rule(acc, system_data.load1 > CpuLoad1Threshold,
         CpuKey(system_data.load1), "warn",
         Alert("warn", "HIGH_CPU_LOAD",
               [load1 |-> system_data.load1, threshold |-> CpuLoad1Threshold]), t)

\* _generate_system_alerts, line 162: used_mb / total_mb raises
\* ZeroDivisionError
MemoryPctRaises(system_data) == system_data.total_mb = 0

\* [state, alerts] after the four threshold rules, when line 162 does not
\* raise
_generate_system_alerts(st, system_data, t) ==
    LET memory_pct == (system_data.used_mb * 10000) \div system_data.total_mb
        a0 == [state |-> st, alerts |-> <<>>]
        a1 == CpuRule(a0, system_data, t)
        a2 == Rule(a1, memory_pct > MemoryPctThreshold,
                   MemoryKey(memory_pct), "warn",
                   Alert("warn", "HIGH_MEMORY_USAGE",
                         [used_pct |-> memory_pct, threshold |-> MemoryPctThreshold]), t)
        a3 == DiskRules(a2, system_data.disk, t)
    IN  Rule(a3, system_data.iowait_pct > IowaitPctThreshold,
             IowaitKey(system_data.iowait_pct), "warn",
             Alert("warn", "HIGH_IO_WAIT",
                   [iowait_pct |-> system_data.iowait_pct,
                    threshold |-> IowaitPctThreshold]), t)

_generate_policy_alerts(st, network_data, t) ==
    Rule([state |-> st, alerts |-> <<>>], network_data.should_disable_wifi,
         WifiKey, "warn",
         Alert("warn", "POLICY_WIFI_ENABLED",
               [wifi_enabled |-> network_data.wifi_enabled]), t)

RECURSIVE ServiceRules(_, _, _)
ServiceRules(acc, services, t) ==
    IF services = <<>> THEN acc
    ELSE LET service == Head(services)
         IN  ServiceRules(
                 Rule(acc, service.risk = "high" /\ service.active,
                      ServiceKey(service.name), "high",
                      Alert("high", "HIGH_RISK_SERVICE_ACTIVE",
                            [service |-> service.name, port |-> service.port]), t),
                 Tail(services), t)

_generate_service_alerts(st, services, t) ==
    ServiceRules([state |-> st, alerts |-> <<>>], services, t)

\* the alerts of the new ports, in the order new_open_ports lists them
PortAlerts(new_open_ports) ==
    [i \in DOMAIN new_open_ports |-> _create_port_alert(new_open_ports[i])]

\* [diff, state].  order is the order in which new_open_ports lists the
\* new ports
_calculate_diffs(st, network_data, system_data, t, order) ==
    LET port_deltas == get_port_deltas(st, network_data.open_ports)
        sys == _generate_system_alerts(st, system_data, t)
        pol == _generate_policy_alerts(sys.state, network_data, t)
        svc == _generate_service_alerts(pol.state, network_data.services, t)
    IN  [ diff  |-> [ new_open_ports |-> order,
                      closed_ports   |-> port_deltas.closed_ports,
                      alerts         |-> PortAlerts(order) \o sys.alerts
                                         \o pol.alerts \o svc.alerts ],
          state |-> svc.state ]

\* the orders in which _calculate_diffs may list the new ports
NewPortOrders(st, network_data) ==
    Orderings(get_port_deltas(st, network_data.open_ports).new_open_ports)

\* [output, state]: the MonitoringOutput returned and self.state after
\* save_state
collect_all(st, network_data, system_data, t, order) ==
    LET d == _calculate_diffs(st, network_data, system_data, t, order)
        new_data == [ has_network |-> TRUE,
                      open_ports  |-> network_data.open_ports,
                      interfaces  |-> network_data.interfaces ]
    IN  [ output |-> [ network |-> network_data,
                       system  |-> system_data,
                       diff    |-> d.diff ],
          state  |-> save_state(d.state, new_data, t) ]

\* collect_all, lines 67-76: the interfaces of the MonitoringOutput
\* returned.  Network(**network_data) is built from the dicts of the
\* network collector before save_state is called, and save_state is given
\* the copy that model_dump() makes
OutputInterfaces(output) == Collected(output.network.interfaces)

-----------------------------------------------------------------------------
(* What the collectors may report *)

Port(proto, port) == [proto |-> proto, port |-> port]

PortLists ==
    { <<Port("tcp", 22)>>,
      <<Port("tcp", 22), Port("tcp", 23)>> }

Interface(name, rx_bytes, tx_bytes) ==
    [name |-> name, rx_bytes |-> rx_bytes, tx_bytes |-> tx_bytes]

IfaceLists ==
    { <<Interface("eth0", 100, 100)>>,
      <<Interface("eth0", 50, 200)>> }

Service(name, active, port, risk) ==
    [name |-> name, active |-> active, port |-> port, risk |-> risk]

\* services and network policy: as required, or Wi-Fi on beside Ethernet
\* and telnet running
Compliant ==
    [ services |-> <<Service("ssh", TRUE, 22, "low")>>,
      wifi_enabled |-> FALSE, should_disable_wifi |-> FALSE ]

Violating ==
    [ services |-> <<Service("telnet", TRUE, 23, "high")>>,
      wifi_enabled |-> TRUE, should_disable_wifi |-> TRUE ]

SystemData(load1, used_mb, disk_pct, iowait_pct) ==
    [ load1 |-> load1, used_mb |-> used_mb, total_mb |-> 8000,
      disk |-> <<[mount |-> "/data", used_pct |-> disk_pct]>>,
      iowait_pct |-> iowait_pct ]

\* the host: quiet and as required, or every resource over its threshold
\* (at two different magnitudes) and the policy violated
HostConditions ==
    { [system |-> SystemData(100, 4000, 5000, 100), posture |-> Compliant],
      [system |-> SystemData(250, 7400, 9000, 2500), posture |-> Violating],
      [system |-> SystemData(300, 7600, 9550, 3000), posture |-> Violating] }

NetworkData(open_ports, interfaces, posture) ==
    [ open_ports |-> open_ports, interfaces |-> interfaces,
      services |-> posture.services,
      wifi_enabled |-> posture.wifi_enabled,
      should_disable_wifi |-> posture.should_disable_wifi ]

\* the snapshots of one run: [network, system]
Snapshots ==
    { [network |-> NetworkData(p, i, h.posture), system |-> h.system] :
      p \in PortLists, i \in IfaceLists, h \in HostConditions }

TickSteps == {30, 31}

Severities == {"warn", "high"}

DirectKeys == {AlertKey("disk:/data", "", -1)}

SaveInputs ==
    { [has_network |-> FALSE, open_ports |-> <<>>, interfaces |-> <<>>] }
    \cup { [has_network |-> TRUE, open_ports |-> p, interfaces |-> i] :
           p \in PortLists, i \in IfaceLists }

CleanupDays == {0, DefaultCleanupDays}

\* a state.json left by an earlier installation, its baseline populated
EarlierState ==
    [ _get_empty_state EXCEPT
        !.last_update = Some(IsoFormat(0)),
        !.open_ports  = <<Port("tcp", 22)>>,
        !.baseline    = <<Port("tcp", 22)>> ]

Procs == {1, 2}

NoProcs ==
    /\ pc = [p \in Procs |-> "idle"]
    /\ mem = [p \in Procs |-> _get_empty_state]
    /\ obs = [p \in Procs |-> "none"]
    /\ snap = [p \in Procs |-> None]

-----------------------------------------------------------------------------
(* The agent run after run: each invocation constructs a StateManager,    *)
(* which loads state.json, and calls collect_all once (__main__.py)       *)

Init ==
    /\ disk = Absent
    /\ state = _get_empty_state
    /\ now = 0
    /\ ret = [op |-> "none"]
    /\ last_run = None
    /\ ops = 0
    /\ fired = <<>>
    /\ NoProcs

Tick(d) ==
    /\ now + d <= MaxTime
    /\ now' = now + d
    /\ UNCHANGED <<fired, disk, state, ret, last_run, ops, pc, mem, obs, snap>>

Run(network_data, system_data) ==
    /\ ops < MaxRuns
    /\ LET prior == _load_state(disk)
       IN  \E order \in NewPortOrders(prior, network_data) :
             LET r == collect_all(prior, network_data, system_data, now, order)
             IN  /\ state' = r.state
                 /\ disk' = File("complete", JsonDump(r.state))
                 /\ last_run' = Some(r.output)
                 /\ ret' = [ op |-> "collect_all", at |-> now, prior |-> prior,
                             output |-> r.output ]
    /\ ops' = ops + 1
    /\ UNCHANGED <<fired, now, pc, mem, obs, snap>>

\* the operator removes the state directory
ResetState ==
    /\ disk # Absent
    /\ disk' = Absent
    /\ state' = _get_empty_state
    /\ ret' = [op |-> "reset"]
    /\ fired' = <<>>
    /\ UNCHANGED <<now, last_run, ops, pc, mem, obs, snap>>

Next ==
    \/ \E d \in TickSteps : Tick(d)
    \/ \E s \in Snapshots : Run(s.network, s.system)

Spec == Init /\ [][Next]_vars

-----------------------------------------------------------------------------
(* The operations of one StateManager, called one at a time *)

\* the firings a state records
Recorded(st) ==
    [ k \in DOMAIN st.alerts |->
        [at |-> FromIsoFormat(st.alerts[k].last_alert), suppressed |-> 0] ]

\* the history after should_alert(alert_key) returned fire at time t
Noted(hist, alert_key, fire, t) ==
    IF fire
    THEN MapPut(hist, alert_key,
                [ at |-> t,
                  suppressed |-> IF alert_key \in DOMAIN hist
                                 THEN hist[alert_key].suppressed ELSE 0 ])
    ELSE [hist EXCEPT ![alert_key].suppressed = @ + 1]

InitialFiles == {Absent, File("partial", None), File("complete", JsonDump(EarlierState))}

InitApi ==
    /\ disk \in InitialFiles
    /\ state = _load_state(disk)
    /\ now = 0
    /\ ret = [op |-> "none"]
    /\ last_run = None
    /\ ops = 0
    /\ fired = Recorded(state)
    /\ NoProcs

\* StateManager(state_dir): a new instance loads state.json
NewStateManager ==
    /\ ops < MaxOps
    /\ state' = _load_state(disk)
    /\ fired' = Recorded(state')
    /\ ret' = [op |-> "load"]
    /\ ops' = ops + 1
    /\ UNCHANGED <<disk, now, last_run, pc, mem, obs, snap>>

SaveState(new_data) ==
    /\ ops < MaxOps
    /\ state' = save_state(state, new_data, now)
    /\ disk' = File("complete", JsonDump(state'))
    /\ last_run' = Some(new_data)
    /\ ret' = [ op |-> "save_state", new_data |-> new_data, prior |-> state,
                passed |-> Collected(new_data.interfaces),
                passed_after |->
                    IF new_data.has_network
                    THEN PassedAfterSave(state.interfaces, new_data.interfaces)
                    ELSE Collected(new_data.interfaces) ]
    /\ ops' = ops + 1
    /\ UNCHANGED <<fired, now, pc, mem, obs, snap>>

GetPortDeltas(current_ports) ==
    /\ ops < MaxOps
    /\ ret' = [ op |-> "get_port_deltas", current_ports |-> current_ports,
                result |-> get_port_deltas(state, current_ports),
                prior |-> state ]
    /\ ops' = ops + 1
    /\ UNCHANGED <<fired, disk, state, now, last_run, pc, mem, obs, snap>>

GetInterfaceDeltas(current_interfaces) ==
    /\ ops < MaxOps
    /\ ret' = [ op |-> "get_interface_deltas",
                result |-> get_interface_deltas(state, current_interfaces),
                prior |-> state,
                passed |-> Collected(current_interfaces),
                passed_after |-> PassedAfterDeltas(state, current_interfaces) ]
    /\ ops' = ops + 1
    /\ UNCHANGED <<fired, disk, state, now, last_run, pc, mem, obs, snap>>

AddUsbEvent(event) ==
    /\ ops < MaxOps
    /\ Len(state.usb_events) < MaxUsb
    /\ state' = add_usb_event(state, event, now)
    /\ ret' = [op |-> "add_usb_event"]
    /\ ops' = ops + 1
    /\ UNCHANGED <<fired, disk, now, last_run, pc, mem, obs, snap>>

ShouldAlert(alert_key, severity) ==
    /\ ops < MaxOps
    /\ LET r == should_alert(state, alert_key, severity, now, DefaultTtlHours)
       IN  /\ state' = r.state
           /\ ret' = [ op |-> "should_alert", alert_key |-> alert_key,
                       severity |-> severity, at |-> now, result |-> r.fire,
                       known |-> alert_key \in DOMAIN state.alerts ]
           /\ fired' = Noted(fired, alert_key, r.fire, now)
    /\ ops' = ops + 1
    /\ UNCHANGED <<disk, now, last_run, pc, mem, obs, snap>>

CleanupOldData(days) ==
    /\ ops < MaxOps
    /\ state' = cleanup_old_data(state, days, now)
    /\ fired' = [k \in DOMAIN fired \cap DOMAIN state'.alerts |-> fired[k]]
    /\ ret' = [ op |-> "cleanup_old_data", days |-> days, at |-> now,
                prior |-> state ]
    /\ ops' = ops + 1
    /\ UNCHANGED <<disk, now, last_run, pc, mem, obs, snap>>

NextApi ==
    \/ \E d \in TickSteps : Tick(d)
    \/ NewStateManager
    \/ \E new_data \in SaveInputs : SaveState(new_data)
    \/ \E ports \in PortLists : GetPortDeltas(ports)
    \/ \E ifaces \in IfaceLists : GetInterfaceDeltas(ifaces)
    \/ AddUsbEvent("add")
    \/ \E k \in DirectKeys, sev \in Severities : ShouldAlert(k, sev)
    \/ \E days \in CleanupDays : CleanupOldData(days)
    \/ ResetState

SpecApi == InitApi /\ [][NextApi]_vars

-----------------------------------------------------------------------------
(* Two invocations of the agent that overlap in time on one state          *)
(* directory.  Each is a process of its own: it constructs its             *)
(* StateManager, computes the diffs and alerts on self.state and saves.    *)
(* save_state opens state.json with mode 'w', which empties the file,      *)
(* and json.dump fills it through a buffer that reaches the file when it   *)
(* overflows and when the file is closed.                                  *)

\* the state.json file with the process that last wrote to it
Written(kind, doc, p) == [kind |-> kind, doc |-> doc, by |-> p]

InitConc ==
    /\ disk = Absent
    /\ state = _get_empty_state
    /\ now = 0
    /\ ret = [op |-> "none"]
    /\ last_run = None
    /\ ops = 0
    /\ fired = <<>>
    /\ NoProcs

\* StateManager(state_dir), __main__.py line 70
Load(p) ==
    /\ pc[p] = "idle"
    /\ obs' = [obs EXCEPT ![p] = disk.kind]
    /\ mem' = [mem EXCEPT ![p] = _load_state(disk)]
    /\ pc' = [pc EXCEPT ![p] = "loaded"]
    /\ UNCHANGED <<fired, disk, state, now, ret, last_run, ops, snap>>

\* collect_all, lines 60-78
Diff(p, network_data, system_data) ==
    /\ pc[p] = "loaded"
    /\ \E order \in NewPortOrders(mem[p], network_data) :
         LET d == _calculate_diffs(mem[p], network_data, system_data, now, order)
         IN  /\ mem' = [mem EXCEPT ![p] = d.state]
             /\ snap' = [snap EXCEPT ![p] =
                           Some([ network |-> network_data, system |-> system_data,
                                  diff |-> d.diff ])]
    /\ pc' = [pc EXCEPT ![p] = "diffed"]
    /\ UNCHANGED <<fired, disk, state, now, ret, last_run, ops, obs>>

\* save_state, lines 61-85: self.state is updated and state.json opened
SaveOpen(p) ==
    /\ pc[p] = "diffed"
    /\ LET run == snap[p][1]
           new_data == [ has_network |-> TRUE,
                         open_ports  |-> run.network.open_ports,
                         interfaces  |-> run.network.interfaces ]
       IN  mem' = [mem EXCEPT ![p] = save_state(@, new_data, now)]
    /\ disk' = Written("empty", None, p)
    /\ pc' = [pc EXCEPT ![p] = "opened"]
    /\ UNCHANGED <<fired, state, now, ret, last_run, ops, obs, snap>>

\* save_state, line 86: the buffer overflows, the first part of the
\* document reaches the file
SaveFlush(p) ==
    /\ pc[p] = "opened"
    /\ disk' = Written("partial", None, p)
    /\ pc' = [pc EXCEPT ![p] = "flushed"]
    /\ UNCHANGED <<fired, state, now, ret, last_run, ops, mem, obs, snap>>

\* whether the file holds what p itself left in it: nobody else has
\* emptied it or written to it since p opened it
Undisturbed(p) ==
    \/ disk.by = p
    \/ pc[p] = "opened" /\ disk.kind = "empty"

\* save_state, lines 85-86: the file is closed and the rest of the
\* document reaches it.  Over bytes another process wrote in the meantime
\* the result is this document, or no JSON at all when the other text
\* was longer
SaveClose(p) ==
    /\ pc[p] \in {"opened", "flushed"}
    /\ \/ disk' = Written("complete", JsonDump(mem[p]), p)
       \/ /\ ~Undisturbed(p)
          /\ disk' = Written("partial", None, p)
    /\ pc' = [pc EXCEPT ![p] = "closed"]
    /\ UNCHANGED <<fired, state, now, ret, last_run, ops, mem, obs, snap>>

\* save_state, lines 89-90, and the return of collect_all
SaveLastRun(p) ==
    /\ pc[p] = "closed"
    /\ last_run' = snap[p]
    /\ pc' = [pc EXCEPT ![p] = "done"]
    /\ UNCHANGED <<fired, disk, state, now, ret, ops, mem, obs, snap>>

NextConc ==
    \E p \in Procs :
        \/ Load(p)
        \/ \E s \in Snapshots : Diff(p, s.network, s.system)
        \/ SaveOpen(p)
        \/ SaveFlush(p)
        \/ SaveClose(p)
        \/ SaveLastRun(p)

SpecConc == InitConc /\ [][NextConc]_vars

-----------------------------------------------------------------------------
(* The difference engine on its own: one StateManager whose state.json    *)
(* was left with a baseline, and the delta and alert operations applied   *)
(* to what the collectors may report                                       *)

WidePorts ==
    {Port("tcp", 22), Port("tcp", 23), Port("udp", 23), Port("udp", 53)}

\* the port lists of at most two entries, an entry twice included
WidePortLists ==
    {<<>>} \cup {<<p>> : p \in WidePorts}
           \cup {<<p, q>> : p \in WidePorts, q \in WidePorts}

\* a state.json whose baseline holds two ports that are no longer the
\* open ports of the last run
DriftedState ==
    [ EarlierState EXCEPT
        !.baseline = <<Port("tcp", 23), Port("udp", 53)>> ]

BaselineFiles ==
    {Absent, File("complete", JsonDump(EarlierState)), File("complete", JsonDump(DriftedState))}

InitDiff ==
    /\ disk \in BaselineFiles
    /\ state = _load_state(disk)
    /\ now = 0
    /\ ret = [op |-> "none"]
    /\ last_run = None
    /\ ops = 0
    /\ fired = Recorded(state)
    /\ NoProcs

\* the resources well under, exactly at and over their thresholds
Readings ==
    { SystemData(100, 4000, 5000, 100),
      SystemData(200, 7200, 8500, 2000),
      SystemData(250, 7400, 9000, 2500) }

\* memory collection failed: _collect_memory_info returned its initial
\* dict, total_mb 0 and used_mb 0, beside a busy CPU, disk and I/O
MemoryUnavailable ==
    [SystemData(250, 0, 9000, 2500) EXCEPT !.total_mb = 0]

\* _calculate_diffs(network_data, system_data) on the state held.  When
\* line 162 raises, the exception leaves _calculate_diffs after the CPU
\* rule has asked should_alert, and diff_data is lost
CalculateDiffs(network_data, system_data) ==
    /\ ops < MaxOps
    /\ IF MemoryPctRaises(system_data)
       THEN /\ state' = CpuRule([state |-> state, alerts |-> <<>>],
                                system_data, now).state
            /\ ret' = [ op |-> "_calculate_diffs raised", at |-> now,
                        prior |-> state, network |-> network_data,
                        system |-> system_data,
                        raised |-> "ZeroDivisionError" ]
       ELSE \E order \in NewPortOrders(state, network_data) :
              LET d == _calculate_diffs(state, network_data, system_data, now, order)
              IN  /\ state' = d.state
                  /\ ret' = [ op |-> "_calculate_diffs", at |-> now,
                              prior |-> state, network |-> network_data,
                              system |-> system_data, diff |-> d.diff ]
    /\ ops' = ops + 1
    /\ UNCHANGED <<fired, disk, now, last_run, pc, mem, obs, snap>>

NextDiff ==
    \/ \E ports \in WidePortLists : GetPortDeltas(ports)
    \/ \E ports \in WidePortLists,
          system_data \in Readings \cup {MemoryUnavailable} :
         CalculateDiffs(NetworkData(ports, <<Interface("eth0", 100, 100)>>,
                                    Compliant),
                        system_data)

SpecDiff == InitDiff /\ [][NextDiff]_vars

\* the four rule groups together: the ports, resources, policy and
\* services of one snapshot after another
NextRules ==
    \E ports \in PortLists, system_data \in Readings,
       posture \in {Compliant, Violating} :
        CalculateDiffs(NetworkData(ports, <<Interface("eth0", 100, 100)>>,
                                   posture),
                       system_data)

SpecRules == InitDiff /\ [][NextRules]_vars

-----------------------------------------------------------------------------

(* One invocation after another of `agent --collect` (__main__.py lines   *)
(* 67-100) on a state directory in which state.json may have been left   *)
(* in any condition, and whose file system may refuse a write             *)

\* whether the keys that the operations subscript self.state with are
\* there: they raise KeyError otherwise
HasKeys(st) == DOMAIN _get_empty_state \subseteq DOMAIN st

\* state.json holds complete JSON that is no state document: the text {}
OtherDocument == File("complete", <<>>)

\* state.json exists and cannot be opened for reading
Unreadable == File("unreadable", None)

FoundFiles ==
    { Absent, Unreadable, File("empty", None), File("partial", None),
      OtherDocument, File("complete", JsonDump(EarlierState)) }

\* what the file system does to save_state, lines 85-86: the file is
\* written, open() raises, or the write raises after open() has emptied
\* the file
SaveOutcomes == {"saved", "open fails", "write fails"}

MainSnapshots ==
    { s \in Snapshots :
        /\ s.network.open_ports = <<Port("tcp", 22)>>
        /\ s.network.interfaces = <<Interface("eth0", 100, 100)>> }

InitMain ==
    /\ disk \in FoundFiles
    /\ state = _get_empty_state
    /\ now = 0
    /\ ret = [op |-> "none"]
    /\ last_run = None
    /\ ops = 0
    /\ fired = <<>>
    /\ NoProcs

\* ExitStatus with every run reported as completed
ExitStatusZero(raised) == 0

\* main, lines 96 and 98-100: the value returned, by the exception that
\* ended the try block ("none": it ran to its end)
ExitStatus(raised) == IF raised = "none" THEN 0 ELSE 1

\* main, lines 82-94 and 99: what the invocation prints
Printed(raised) ==
    IF raised = "none" THEN {"Collection completed", "alert summary"}
    ELSE {"Collection failed"}

\* main with --collect.  ret tells the file found, the state loaded from
\* it, the exception that ended the try block, what was printed and the
\* exit status
Main(network_data, system_data, outcome) ==
    /\ ops < MaxRuns
    /\ LET prior == _load_state(disk)
           Failed(exception) ==
               [ op |-> "main", at |-> now, file |-> disk, prior |-> prior,
                 raised |-> exception, printed |-> Printed(exception),
                 exit |-> ExitStatus(exception) ]
       IN  IF ~HasKeys(prior)
           THEN \* get_port_deltas, line 94
                /\ state' = prior
                /\ ret' = Failed("KeyError")
                /\ UNCHANGED <<disk, last_run>>
           ELSE \E order \in NewPortOrders(prior, network_data) :
                  LET r == collect_all(prior, network_data, system_data, now, order)
                  IN  /\ state' = r.state
                      /\ IF outcome = "saved"
                         THEN /\ disk' = File("complete", JsonDump(r.state))
                              /\ last_run' = Some(r.output)
                              /\ ret' = [ op |-> "main", at |-> now, file |-> disk,
                                          prior |-> prior, raised |-> "none",
                                          printed |-> Printed("none"),
                                          exit |-> ExitStatus("none") ]
                         ELSE /\ disk' = IF outcome = "open fails" THEN disk
                                         ELSE File("partial", None)
                              /\ ret' = Failed("IOError")
                              /\ UNCHANGED last_run
    /\ ops' = ops + 1
    /\ UNCHANGED <<fired, now, pc, mem, obs, snap>>

\* the agent is not invoked for a day longer than the cleanup horizon
Idle ==
    /\ now <= MaxTime
    /\ now' = now + TimeDeltaDays(DefaultCleanupDays + 1)
    /\ UNCHANGED <<fired, disk, state, ret, last_run, ops, pc, mem, obs, snap>>

NextMain ==
    \/ \E s \in MainSnapshots, outcome \in SaveOutcomes :
         Main(s.network, s.system, outcome)
    \/ Idle

SpecMain == InitMain /\ [][NextMain]_vars

-----------------------------------------------------------------------------

(* The deduplicator under a system clock that may be set back between     *)
(* two calls, called with the default TTL and with a TTL of zero          *)

TtlChoices == {0, DefaultTtlHours}

\* the clock is set back by an hour and a minute
BackSteps == {61}

\* datetime.now() (line 164) after the system clock was set back
ClockBack(d) ==
    /\ now - d >= 0
    /\ now' = now - d
    /\ UNCHANGED <<fired, disk, state, ret, last_run, ops, pc, mem, obs, snap>>

\* should_alert(alert_key, severity, ttl_hours)
ShouldAlertTtl(alert_key, severity, ttl_hours) ==
    /\ ops < MaxOps
    /\ LET r == should_alert(state, alert_key, severity, now, ttl_hours)
       IN  /\ state' = r.state
           /\ ret' = [ op |-> "should_alert", alert_key |-> alert_key,
                       severity |-> severity, ttl_hours |-> ttl_hours,
                       at |-> now, prior |-> state, result |-> r.fire ]
    /\ ops' = ops + 1
    /\ UNCHANGED <<fired, disk, now, last_run, pc, mem, obs, snap>>

NextDedup ==
    \/ \E d \in TickSteps : Tick(d)
    \/ \E d \in BackSteps : ClockBack(d)
    \/ \E k \in DirectKeys, sev \in Severities, ttl \in TtlChoices :
         ShouldAlertTtl(k, sev, ttl)

SpecDedup == Init /\ [][NextDedup]_vars

-----------------------------------------------------------------------------

(* One StateManager that receives USB events one after the other, a       *)
(* minute apart, until the log has had to drop its oldest entries          *)

\* add_usb_event(event) by a caller that keeps what it has passed:
\* ret.added is every entry added so far, the oldest first
LogUsbEvent(event) ==
    /\ LET added == IF ret.op = "add_usb_event" THEN ret.added ELSE <<>>
       IN  /\ Len(added) < MaxAdded
           /\ ret' = [ op |-> "add_usb_event",
                       added |-> Append(added, [ action |-> event,
                                                 time |-> IsoFormat(now) ]) ]
    /\ state' = add_usb_event(state, event, now)
    /\ now' = now + 1
    /\ UNCHANGED <<fired, disk, last_run, ops, pc, mem, obs, snap>>

NextUsb == LogUsbEvent("add")

SpecUsb == InitApi /\ [][NextUsb]_vars

-----------------------------------------------------------------------------

(* One StateManager whose alert table holds entries of different ages     *)
(* when cleanup_old_data is called                                         *)

TwoKeys == {AlertKey("disk:/data", "", -1), AlertKey("usb:new", "", -1)}

NextCleanup ==
    \/ \E d \in TickSteps : Tick(d)
    \/ \E k \in TwoKeys : ShouldAlert(k, "warn")
    \/ SaveState([ has_network |-> TRUE,
                   open_ports  |-> <<Port("tcp", 22), Port("tcp", 23)>>,
                   interfaces  |-> <<Interface("eth0", 100, 100)>> ])
    \/ \E days \in CleanupDays : CleanupOldData(days)

SpecCleanup == InitApi /\ [][NextCleanup]_vars

-----------------------------------------------------------------------------

(* StateExporter (agent/exporter/state_exporter.py): the export tree      *)
(* under export_dir, the artifacts, latest.json and manifest.csv of each  *)
(* host partition, and the retention sweep                                 *)

DefaultRetentionDays == 30

\* the calendar: days are counted from Day0
Day0 == [year |-> 2024, month |-> 1, day |-> 1]

IsLeap(year) == (year % 4 = 0 /\ year % 100 # 0) \/ year % 400 = 0

DaysInMonth(year, month) ==
    CASE month \in {1, 3, 5, 7, 8, 10, 12} -> 31
      [] month \in {4, 6, 9, 11} -> 30
      [] month = 2 -> IF IsLeap(year) THEN 29 ELSE 28

\* the calendar date n days after the first of the month (year, month)
RECURSIVE CivilFromDays(_, _, _)
CivilFromDays(year, month, n) ==
    IF n < DaysInMonth(year, month)
    THEN [year |-> year, month |-> month, day |-> n + 1]
    ELSE CivilFromDays(IF month = 12 THEN year + 1 ELSE year,
                       IF month = 12 THEN 1 ELSE month + 1,
                       n - DaysInMonth(year, month))

\* the calendar date of day n
Civil(n) == CivilFromDays(Day0.year, Day0.month, n)

\* the days from Day0 to the first of the month (year, month)
RECURSIVE DaysBefore(_, _)
DaysBefore(year, month) ==
    IF year = Day0.year /\ month = Day0.month THEN 0
    ELSE LET py == IF month = 1 THEN year - 1 ELSE year
             pm == IF month = 1 THEN 12 ELSE month - 1
         IN  DaysBefore(py, pm) + DaysInMonth(py, pm)

\* whether datetime accepts the date
ValidDate(year, month, day) ==
    /\ month \in 1..12
    /\ day \in 1..DaysInMonth(year, month)

\* the day number of a calendar date
Ordinal(year, month, day) == DaysBefore(year, month) + day - 1

\* a datetime: day number, time of day and microseconds
Datetime(day, hour, minute, second, micro) ==
    [ day |-> day, hour |-> hour, minute |-> minute, second |-> second,
      micro |-> micro ]

\* full_result["timestamp"]: a string with a T ("iso"), a string with a
\* space and a fraction ("space"), any other string ("text"), or a
\* datetime; tz is the UTC offset in minutes, None when there is none
Timestamp(form, at, tz) == [form |-> form, at |-> at, tz |-> tz]

\* export_state, lines 36-43: None stands for ValueError
ParseTimestamp(timestamp_str) ==
    CASE timestamp_str.form = "iso" ->
             Some([at |-> timestamp_str.at, tz |-> timestamp_str.tz])
      [] timestamp_str.form = "space" ->
             IF timestamp_str.tz = None
             THEN Some([at |-> timestamp_str.at, tz |-> None])
             ELSE None
      [] timestamp_str.form = "text" -> None
      [] timestamp_str.form = "datetime" ->
             Some([at |-> timestamp_str.at, tz |-> timestamp_str.tz])

\* export_state, lines 46-49: replace(tzinfo=utc) on a naive datetime,
\* astimezone(utc) on an aware one
EnsureUtc(timestamp) ==
    IF timestamp.tz = None THEN timestamp.at
    ELSE LET minutes == timestamp.at.day * 1440 + timestamp.at.hour * 60
                        + timestamp.at.minute - timestamp.tz[1]
         IN  Datetime(minutes \div 1440, (minutes % 1440) \div 60,
                      minutes % 60, timestamp.at.second, timestamp.at.micro)

\* timestamp.isoformat() of a UTC datetime
isoformat(timestamp) ==
    [ date |-> Civil(timestamp.day), hour |-> timestamp.hour,
      minute |-> timestamp.minute, second |-> timestamp.second,
      micro |-> timestamp.micro ]

\* export_state, lines 52-57: the directory of the run under export_dir.
\* The directory at the month level is named by strftime("%M"), the
\* minute of the hour
ExportPath(timestamp, host) ==
    [ year |-> Civil(timestamp.day).year, month |-> timestamp.minute,
      day |-> Civil(timestamp.day).day, host |-> host ]

\* the file name without the run id
FilenameNoRunId(host, timestamp, run_id) ==
    [ host |-> host, date |-> Civil(timestamp.day),
      time |-> <<timestamp.hour, timestamp.minute, timestamp.second>>,
      run_id |-> "" ]

\* export_state, line 64: state-{host}-{YYYYMMDD}-{HHMMSS}-{run_id}.jsonl.gz
Filename(host, timestamp, run_id) ==
    [ host |-> host, date |-> Civil(timestamp.day),
      time |-> <<timestamp.hour, timestamp.minute, timestamp.second>>,
      run_id |-> run_id ]

\* the alerts of the projection, lines 165-171
RECURSIVE MinimalAlerts(_)
MinimalAlerts(alerts) ==
    IF alerts = <<>> THEN <<>>
    ELSE <<[severity |-> Head(alerts).severity, code |-> Head(alerts).code]>>
         \o MinimalAlerts(Tail(alerts))

\* full_result.get("alerts", [])
AlertsOf(full_result) ==
    IF "alerts" \in DOMAIN full_result THEN full_result.alerts ELSE <<>>

\* full_result.get("network", {}).get("open_ports", []), lines 139, 151
OpenPortsOf(full_result) ==
    IF "network" \in DOMAIN full_result
       /\ "open_ports" \in DOMAIN full_result.network
    THEN full_result.network.open_ports ELSE <<>>

\* the open ports of the projection, lines 150-156
MinimalOpenPorts(open_ports) ==
    [ i \in DOMAIN open_ports |->
        LET port == open_ports[i]
        IN  [ proto |-> IF "protocol" \in DOMAIN port
                        THEN port.protocol ELSE "tcp",
              port  |-> IF "port" \in DOMAIN port THEN port.port ELSE 0,
              proc  |-> IF "process" \in DOMAIN port
                        THEN port.process ELSE "" ] ]

\* the projection written to the artifact and to latest.json: its
\* identification, its open ports and its alerts
_serialize_minimal_state(full_result, timestamp) ==
    [ ts |-> isoformat(timestamp), host |-> full_result.host,
      run_id |-> full_result.run_id,
      net |-> [open_ports |-> MinimalOpenPorts(OpenPortsOf(full_result))],
      alerts |-> MinimalAlerts(AlertsOf(full_result)) ]

\* the export tree: the host directories made, the artifacts by path,
\* latest.json, latest.tmp and manifest.csv by host directory, and the
\* clock of the file system, which stamps a file when it is written
EmptyTree ==
    [ dirs |-> {}, artifacts |-> <<>>, latest |-> <<>>, tmp |-> <<>>,
      manifest |-> <<>>, clock |-> 0 ]

\* export_path.mkdir(parents=True, exist_ok=True), line 58
mkdir(tree, export_path) == [tree EXCEPT !.dirs = @ \cup {export_path}]

\* _write_jsonl_gz: gzip.open(path, 'wt') creates the file or empties the
\* one that is there, and the document is written
_write_jsonl_gz(tree, path, doc) ==
    [tree EXCEPT !.artifacts = MapPut(@, path, doc)]

\* _update_latest, lines 198-200: latest.tmp is opened for writing and
\* holds the document when it is closed
WriteTemp(tree, export_path, doc) ==
    [tree EXCEPT !.tmp = MapPut(@, export_path,
                                [ kind |-> "complete", doc |-> doc,
                                  mtime |-> tree.clock + 1 ]),
                 !.clock = @ + 1]

\* _update_latest, line 201: shutil.move(latest.tmp, latest.json)
MoveTemp(tree, export_path) ==
    [tree EXCEPT !.latest = MapPut(@, export_path, tree.tmp[export_path]),
                 !.tmp = MapRemove(@, {export_path})]

_update_latest(tree, export_path, doc) ==
    MoveTemp(WriteTemp(tree, export_path, doc), export_path)

\* the header row of manifest.csv
Header == [header |-> TRUE]

\* export_state, lines 77-84: the row of the run (its size column apart)
ManifestRow(timestamp, host, run_id, path, full_result) ==
    [ header |-> FALSE, ts |-> isoformat(timestamp), host |-> host,
      run_id |-> run_id, path |-> path,
      alerts_count |-> Len(AlertsOf(full_result)) ]

\* _append_manifest, lines 207-211: what is appended once path.exists()
\* has answered file_exists
AppendRows(tree, export_path, file_exists, row) ==
    LET old == IF export_path \in DOMAIN tree.manifest
               THEN tree.manifest[export_path] ELSE <<>>
        new == IF file_exists THEN <<row>> ELSE <<Header, row>>
    IN  [tree EXCEPT !.manifest = MapPut(@, export_path, old \o new)]

_append_manifest(tree, export_path, row) ==
    AppendRows(tree, export_path, export_path \in DOMAIN tree.manifest, row)

\* the step of export_state at which the file system refuses
Faults == {"none", "mkdir", "write", "rename", "manifest"}

\* how the body of export_state ends
Raise(exception, tree) ==
    [raised |-> exception, value |-> None, tree |-> tree]
Return(value, tree) ==
    [raised |-> "none", value |-> Some(value), tree |-> tree]

\* export_state, lines 35-93, the body of the try statement
ExportBody(self, tree, full_result, fault) ==
    IF "timestamp" \notin DOMAIN full_result THEN Raise("KeyError", tree)
    ELSE IF ParseTimestamp(full_result.timestamp) = None
    THEN Raise("ValueError", tree)
    ELSE IF "host" \notin DOMAIN full_result THEN Raise("KeyError", tree)
    ELSE IF fault = "mkdir" THEN Raise("OSError", tree)
    ELSE
    LET timestamp == EnsureUtc(ParseTimestamp(full_result.timestamp)[1])
        host == full_result.host
        export_path == ExportPath(timestamp, host)
        made == mkdir(tree, export_path)
    IN  IF "run_id" \notin DOMAIN full_result THEN Raise("KeyError", made)
        ELSE IF fault = "write" THEN Raise("OSError", made)
        ELSE
        LET minimal_state == _serialize_minimal_state(full_result, timestamp)
            file_path == [ dir |-> export_path,
                           name |-> Filename(host, timestamp, full_result.run_id) ]
            written == _write_jsonl_gz(made, file_path, minimal_state)
            latest == IF self.write_latest
                      THEN _update_latest(written, export_path, minimal_state)
                      ELSE written
            row == ManifestRow(timestamp, host, full_result.run_id, file_path,
                               full_result)
            appended == IF self.write_manifest
                        THEN _append_manifest(latest, export_path, row)
                        ELSE latest
        IN  IF self.write_latest /\ fault = "rename"
            THEN Raise("OSError", WriteTemp(written, export_path, minimal_state))
            ELSE IF self.write_manifest /\ fault = "manifest"
            THEN Raise("OSError", latest)
            ELSE Return([path |-> file_path, timestamp |-> isoformat(timestamp)],
                        appended)

\* export_state with the enabled flag ignored
export_state_always(self, tree, full_result, fault) ==
    LET r == ExportBody(self, tree, full_result, fault)
    IN  [raised |-> "none", value |-> r.value, tree |-> r.tree]

\* export_state with the exception of its body passed on to the caller
export_state_uncaught(self, tree, full_result, fault) ==
    IF ~self.enabled THEN [raised |-> "none", value |-> None, tree |-> tree]
    ELSE ExportBody(self, tree, full_result, fault)

\* export_state: [raised, value, tree].  Whatever the body raises is
\* caught at line 95 and None is returned
export_state(self, tree, full_result, fault) ==
    IF ~self.enabled THEN [raised |-> "none", value |-> None, tree |-> tree]
    ELSE LET r == ExportBody(self, tree, full_result, fault)
         IN  [raised |-> "none", value |-> r.value, tree |-> r.tree]

\* the day directories of the tree: export_dir/*/*/*
DayDir(export_path) ==
    [year |-> export_path.year, month |-> export_path.month,
     day |-> export_path.day]

DayDirs(tree) == {DayDir(export_path) : export_path \in tree.dirs}

\* apply_retention, lines 233-234: the day number that strptime reads from
\* the three directory names, None when it raises ValueError
ParseDayDir(day_dir) ==
    IF ValidDate(day_dir.year, day_dir.month, day_dir.day)
    THEN Some(Ordinal(day_dir.year, day_dir.month, day_dir.day))
    ELSE None

\* apply_retention, lines 218 and 236: day_date < cutoff_date, at the
\* clock reading t in minutes
Expired(day_dir, t, retention_days) ==
    /\ ParseDayDir(day_dir) # None
    /\ ParseDayDir(day_dir)[1] * 1440 < t - retention_days * 1440

\* the files by host directory, without those under the day directories
OutsideDirs(f, day_dirs) ==
    [x \in {y \in DOMAIN f : DayDir(y) \notin day_dirs} |-> f[x]]

\* the artifacts by path, without those under the day directories
OutsideFiles(f, day_dirs) ==
    [x \in {y \in DOMAIN f : DayDir(y.dir) \notin day_dirs} |-> f[x]]

\* shutil.rmtree of each of the day directories
rmtree(tree, day_dirs) ==
    [ dirs |-> {d \in tree.dirs : DayDir(d) \notin day_dirs},
      artifacts |-> OutsideFiles(tree.artifacts, day_dirs),
      latest |-> OutsideDirs(tree.latest, day_dirs),
      tmp |-> OutsideDirs(tree.tmp, day_dirs),
      manifest |-> OutsideDirs(tree.manifest, day_dirs),
      clock |-> tree.clock ]

\* apply_retention at the clock reading t: [value, tree]
apply_retention(self, tree, t) ==
    LET old == {day_dir \in DayDirs(tree) : Expired(day_dir, t, self.retention_days)}
    IN  [value |-> Cardinality(old), tree |-> rmtree(tree, old)]

-----------------------------------------------------------------------------

(* Exports of one host over several weeks and the retention sweep         *)
(* (export_state and apply_retention of one StateExporter)                *)

MaxSweepOps == 4

\* StateExporter({}): the defaults of __init__
DefaultExporter ==
    [ enabled |-> TRUE, retention_days |-> DefaultRetentionDays,
      write_latest |-> TRUE, write_manifest |-> TRUE ]

\* the day of the sweep, 15 June 2024, and its clock reading at noon
SweepDay == Ordinal(2024, 6, 15)
SweepTime == SweepDay * 1440 + 720

\* the result of a run of the host at the UTC time given, its run id made
\* of the time
ResultAt(day, hour, minute, second) ==
    [ timestamp |-> Timestamp("iso", Datetime(day, hour, minute, second, 0), Some(0)),
      host |-> "web1",
      run_id |-> <<day, hour, minute, second>>,
      alerts |-> <<Alert("warn", "HIGH_CPU_LOAD", [load1 |-> 250])>> ]

\* runs 40, 10 and 1 days before the sweep, at 12:30:00, 18:03:00 and
\* 18:05:00, and a run 30 days before the sweep at 18:05:00, six hours
\* inside the retention period
SweptResults ==
    { ResultAt(SweepDay - d, tod[1], tod[2], 0) :
        d \in {40, 10, 1}, tod \in {<<12, 30>>, <<18, 3>>, <<18, 5>>} }
    \cup {ResultAt(SweepDay - 30, 18, 5, 0)}

InitSweep ==
    /\ disk = EmptyTree
    /\ state = DefaultExporter
    /\ now = SweepTime
    /\ ret = [op |-> "none"]
    /\ last_run = None
    /\ ops = 0
    /\ fired = <<>>
    /\ NoProcs

\* the full_results of the calls of export_state that returned a path,
\* with this one
Logged(full_result, fault) ==
    IF export_state(state, disk, full_result, fault).value # None
    THEN Append(fired, full_result)
    ELSE fired

\* export_state(full_result), the file system refusing at the step fault;
\* history is what is remembered of the calls made
ExportState(full_result, fault, bound, history) ==
    /\ ops < bound
    /\ fired' = history
    /\ LET r == export_state(state, disk, full_result, fault)
       IN  /\ disk' = r.tree
           /\ ret' = [ op |-> "export_state", self |-> state,
                       full_result |-> full_result,
                       fault |-> fault, prior |-> disk,
                       raised |-> r.raised, value |-> r.value ]
    /\ ops' = ops + 1
    /\ UNCHANGED <<state, now, last_run, pc, mem, obs, snap>>

\* apply_retention()
ApplyRetention(bound) ==
    /\ ops < bound
    /\ LET r == apply_retention(state, disk, now)
       IN  /\ disk' = r.tree
           /\ ret' = [ op |-> "apply_retention", at |-> now, prior |-> disk,
                       value |-> r.value ]
    /\ ops' = ops + 1
    /\ UNCHANGED <<fired, state, now, last_run, pc, mem, obs, snap>>

NextSweep ==
    \/ \E full_result \in SweptResults :
         ExportState(full_result, "none", MaxSweepOps, fired)
    \/ ApplyRetention(MaxSweepOps)

SpecSweep == InitSweep /\ [][NextSweep]_vars

-----------------------------------------------------------------------------

(* Exports of the runs of one host into one partition: runs of the same   *)
(* second, a run exported again, results with fields missing and a file   *)
(* system that refuses a step                                              *)

MaxExports == 3

\* the result of a run of web1 on 14 June 2024
ResultOf(timestamp, run_id, alerts) ==
    [ timestamp |-> timestamp, host |-> "web1", run_id |-> run_id,
      alerts |-> alerts ]

CpuAlert == Alert("warn", "HIGH_CPU_LOAD", [load1 |-> 250])

\* two runs of 12:30:07 UTC with run ids r1 and r2; r1 once more with
\* other alerts; a run with a naive "space" timestamp; a run stamped
\* 15 June 00:30:07 at UTC+2, a datetime
GoodResults ==
    { ResultOf(Timestamp("iso", Datetime(SweepDay - 1, 12, 30, 7, 0), Some(0)),
               "r1", <<CpuAlert>>),
      ResultOf(Timestamp("iso", Datetime(SweepDay - 1, 12, 30, 7, 0), Some(0)),
               "r1", <<>>),
      ResultOf(Timestamp("iso", Datetime(SweepDay - 1, 12, 30, 7, 5), Some(0)),
               "r2", <<CpuAlert>>),
      ResultOf(Timestamp("space", Datetime(SweepDay - 1, 12, 30, 8, 5), None),
               "r3", <<>>),
      ResultOf(Timestamp("datetime", Datetime(SweepDay, 0, 30, 7, 0), Some(120)),
               "r4", <<>>) }

\* a result without the key
Without(full_result, key) ==
    [k \in DOMAIN full_result \ {key} |-> full_result[k]]

\* results that export_state cannot use: a key is missing, or the
\* timestamp is a string that is no timestamp
BadResults ==
    LET good == ResultOf(Timestamp("iso", Datetime(SweepDay - 1, 12, 30, 7, 0),
                                   Some(0)), "r1", <<CpuAlert>>)
    IN  { Without(good, "timestamp"), Without(good, "host"),
          Without(good, "run_id"),
          [good EXCEPT !.timestamp.form = "text"] }

\* the calls: [full_result, fault]
ExportCalls ==
    { [full_result |-> r, fault |-> "none"] : r \in GoodResults \cup BadResults }
    \cup { [full_result |-> r, fault |-> f] :
             r \in {x \in GoodResults : x.run_id \in {"r1", "r2"} /\ x.alerts # <<>>},
             f \in Faults \ {"none"} }

\* the export section of the configuration: exporting on or off
ExportConfigs ==
    {DefaultExporter, [DefaultExporter EXCEPT !.enabled = FALSE]}

\* StateExporter(config) on the same export directory, which is made if it
\* is not there
NewStateExporter(config) ==
    /\ state' = config
    /\ UNCHANGED <<fired, disk, now, ret, last_run, ops, pc, mem, obs, snap>>

NextExport ==
    \/ \E call \in ExportCalls :
         ExportState(call.full_result, call.fault, MaxExports,
                     Logged(call.full_result, call.fault))
    \/ \E config \in ExportConfigs : NewStateExporter(config)

SpecExport == InitSweep /\ [][NextExport]_vars

-----------------------------------------------------------------------------

(* Two invocations of export_state for runs of one host in one second,    *)
(* step by step, into the same host partition, and a reader of            *)
(* latest.json.  _update_latest opens latest.tmp with mode 'w', which     *)
(* creates the file or empties the one of that name, json.dump fills it   *)
(* through a buffer, and shutil.move renames it to latest.json.           *)
(* _append_manifest asks path.exists() and then opens manifest.csv for    *)
(* appending                                                               *)

\* the run that invocation p exports
OverlapResult(p) ==
    ResultOf(Timestamp("iso", Datetime(SweepDay - 1, 12, 30, 7, 0), Some(0)),
             <<"run", p>>, <<CpuAlert>>)

\* the partition of the two runs
OverlapPath ==
    ExportPath(EnsureUtc(ParseTimestamp(OverlapResult(1).timestamp)[1]), "web1")

\* the projection that invocation p writes
OverlapDoc(p) ==
    _serialize_minimal_state(
        OverlapResult(p),
        EnsureUtc(ParseTimestamp(OverlapResult(p).timestamp)[1]))

\* the partition before the two invocations: new, or left by the export
\* of an earlier run
EarlierTrees ==
    { EmptyTree,
      export_state(DefaultExporter, EmptyTree,
                   ResultOf(Timestamp("iso", Datetime(SweepDay - 1, 11, 30, 7, 0),
                                      Some(0)),
                            "r0", <<>>),
                   "none").tree }

\* the locals of an invocation: the name under which the file it has open
\* is found now ("tmp", "latest", "gone", "none" when it has none open)
\* and what path.exists() answered
NoLocals == [fd |-> "none", file_exists |-> FALSE]

InitOverlap ==
    /\ disk \in EarlierTrees
    /\ state = DefaultExporter
    /\ now = SweepTime
    /\ ret = [op |-> "none"]
    /\ last_run = None
    /\ ops = 0
    /\ fired = <<>>
    /\ pc = [p \in Procs |-> "idle"]
    /\ mem = [p \in Procs |-> NoLocals]
    /\ obs = [p \in Procs |-> "none"]
    /\ snap = [p \in Procs |-> None]

\* the tree with file under the name that fd stands for
PutAt(tree, fd, file) ==
    CASE fd = "tmp" -> [tree EXCEPT !.tmp = MapPut(@, OverlapPath, file)]
      [] fd = "latest" -> [tree EXCEPT !.latest = MapPut(@, OverlapPath, file)]
      [] OTHER -> tree

\* whether the file that p has open holds what p itself left in it
Intact(p) ==
    LET fd == mem[p].fd
        file == IF fd = "tmp" THEN disk.tmp[OverlapPath]
                ELSE disk.latest[OverlapPath]
    IN  \/ fd \notin {"tmp", "latest"}
        \/ file.by = p
        \/ pc[p] = "opened" /\ file.kind = "empty"

\* export_state, lines 36-68: the directory is made and the artifact
\* written
WriteArtifact(p) ==
    /\ pc[p] = "idle"
    /\ disk' = _write_jsonl_gz(
                   mkdir(disk, OverlapPath),
                   [ dir |-> OverlapPath,
                     name |-> Filename("web1",
                                  EnsureUtc(ParseTimestamp(OverlapResult(p).timestamp)[1]),
                                  OverlapResult(p).run_id) ],
                   OverlapDoc(p))
    /\ pc' = [pc EXCEPT ![p] = "written"]
    /\ UNCHANGED <<fired, state, now, ret, last_run, ops, mem, obs, snap>>

\* _update_latest, line 199: open(temp_path, 'w')
OpenTemp(p) ==
    /\ pc[p] = "written"
    /\ disk' = PutAt(disk, "tmp", Written("empty", None, p))
    /\ mem' = [mem EXCEPT ![p].fd = "tmp"]
    /\ pc' = [pc EXCEPT ![p] = "opened"]
    /\ UNCHANGED <<fired, state, now, ret, last_run, ops, obs, snap>>

\* _update_latest, line 200: the buffer overflows, the first part of the
\* document reaches the file
FlushTemp(p) ==
    /\ pc[p] = "opened"
    /\ disk' = PutAt(disk, mem[p].fd, Written("partial", None, p))
    /\ pc' = [pc EXCEPT ![p] = "flushed"]
    /\ UNCHANGED <<fired, state, now, ret, last_run, ops, mem, obs, snap>>

\* _update_latest, lines 199-200: the file is closed and the rest of the
\* document reaches it.  Over bytes that the other invocation wrote in the
\* meantime the result is this document or no JSON at all
CloseTemp(p) ==
    /\ pc[p] \in {"opened", "flushed"}
    /\ \/ disk' = PutAt(disk, mem[p].fd, Written("complete", OverlapDoc(p), p))
       \/ /\ ~Intact(p)
          /\ disk' = PutAt(disk, mem[p].fd, Written("partial", None, p))
    /\ mem' = [mem EXCEPT ![p].fd = "none"]
    /\ pc' = [pc EXCEPT ![p] = "closed"]
    /\ UNCHANGED <<fired, state, now, ret, last_run, ops, obs, snap>>

\* _update_latest, line 201: shutil.move(latest.tmp, latest.json).  The
\* file takes the name latest.json, also for the invocation that still
\* has it open; when the other invocation has moved latest.tmp away, move
\* raises and export_state returns None
MoveLatest(p) ==
    /\ pc[p] = "closed"
    /\ IF OverlapPath \in DOMAIN disk.tmp
       THEN /\ disk' = MoveTemp(disk, OverlapPath)
            /\ mem' = [q \in Procs |->
                         [mem[q] EXCEPT !.fd =
                            CASE @ = "tmp" -> "latest"
                              [] @ = "latest" -> "gone"
                              [] OTHER -> @]]
            /\ pc' = [pc EXCEPT ![p] = "moved"]
            /\ obs' = obs
       ELSE /\ pc' = [pc EXCEPT ![p] = "done"]
            /\ obs' = [obs EXCEPT ![p] = "returned None"]
            /\ UNCHANGED <<disk, mem>>
    /\ UNCHANGED <<fired, state, now, ret, last_run, ops, snap>>

\* _append_manifest, line 205: file_exists = path.exists()
ManifestExists(p) ==
    /\ pc[p] = "moved"
    /\ mem' = [mem EXCEPT ![p].file_exists = OverlapPath \in DOMAIN disk.manifest]
    /\ pc' = [pc EXCEPT ![p] = "checked"]
    /\ UNCHANGED <<fired, disk, state, now, ret, last_run, ops, obs, snap>>

\* _append_manifest, lines 207-211, and the return of export_state.  fired
\* lists the invocations in the order in which they appended
ManifestAppend(p) ==
    /\ pc[p] = "checked"
    /\ LET timestamp == EnsureUtc(ParseTimestamp(OverlapResult(p).timestamp)[1])
           file_path == [ dir |-> OverlapPath,
                          name |-> Filename("web1", timestamp,
                                            OverlapResult(p).run_id) ]
       IN  disk' = AppendRows(disk, OverlapPath, mem[p].file_exists,
                              ManifestRow(timestamp, "web1",
                                          OverlapResult(p).run_id, file_path,
                                          OverlapResult(p)))
    /\ fired' = Append(fired, p)
    /\ pc' = [pc EXCEPT ![p] = "done"]
    /\ obs' = [obs EXCEPT ![p] = "returned path"]
    /\ UNCHANGED <<state, now, ret, last_run, ops, mem, snap>>

\* get_latest_state("web1"), lines 302-308: json.load of latest.json; a
\* document that is not whole makes it return None
GetLatestState ==
    /\ OverlapPath \in DOMAIN disk.latest
    /\ ret' = [ op |-> "get_latest_state",
                read |-> disk.latest[OverlapPath].kind,
                value |-> IF disk.latest[OverlapPath].kind = "complete"
                          THEN Some(disk.latest[OverlapPath].doc)
                          ELSE None ]
    /\ UNCHANGED <<fired, disk, state, now, last_run, ops, pc, mem, obs, snap>>

NextOverlap ==
    \/ \E p \in Procs :
         \/ WriteArtifact(p)
         \/ OpenTemp(p)
         \/ FlushTemp(p)
         \/ CloseTemp(p)
         \/ MoveLatest(p)
         \/ ManifestExists(p)
         \/ ManifestAppend(p)
    \/ GetLatestState

SpecOverlap == InitOverlap /\ [][NextOverlap]_vars

-----------------------------------------------------------------------------

(* The readers of the export tree: get_history and get_latest_state after *)
(* exports of two hosts into several partitions                            *)

MaxQueryOps == 3

\* str.split('-') of a host name
HostParts(host) ==
    IF host = "security-monitor.local" THEN <<"security", "monitor.local">>
    ELSE <<host>>

\* filename.split('-'), line 325: "state", the parts of the host name, the
\* eight digits of the date, the six of the time, and the run id with the
\* suffix
SplitName(name) ==
    <<[kind |-> "text"]>>
    \o [i \in DOMAIN HostParts(name.host) |-> [kind |-> "text"]]
    \o << [kind |-> "date", date |-> name.date],
          [kind |-> "time", time |-> name.time],
          [kind |-> "text"] >>

\* get_history, lines 326-329: the datetime that strptime reads from
\* parts[2] + parts[3][:6], None when it raises ValueError
FileTimestamp(name) ==
    LET parts == SplitName(name)
    IN  IF parts[3].kind = "date" /\ parts[4].kind = "time"
        THEN Some(Datetime(Ordinal(parts[3].date.year, parts[3].date.month,
                                   parts[3].date.day),
                           parts[4].time[1], parts[4].time[2], parts[4].time[3],
                           0))
        ELSE None

\* the seconds of a datetime from Day0
Seconds(t) == ((t.day * 24 + t.hour) * 60 + t.minute) * 60 + t.second

\* get_history, lines 332-335: the file passes the time filters
InRange(file_timestamp, from_ts, to_ts) ==
    /\ from_ts = None \/ Seconds(file_timestamp) >= Seconds(from_ts[1])
    /\ to_ts = None \/ Seconds(file_timestamp) <= Seconds(to_ts[1])

\* the ts string with the suffix Z in place of +00:00
TsStringZulu(ts) ==
    << ts.date.year, ts.date.month, ts.date.day, ts.hour, ts.minute,
       ts.second >>
    \o (IF ts.micro = 0 THEN <<90>> ELSE <<46, ts.micro, 90>>)

\* the string of isoformat() of a UTC datetime, as its fixed-width fields
\* followed by the code of the next character: "+" (43) of +00:00 when
\* the microseconds are zero, "." (46) and the six digits otherwise
TsString(ts) ==
    << ts.date.year, ts.date.month, ts.date.day, ts.hour, ts.minute,
       ts.second >>
    \o (IF ts.micro = 0 THEN <<43>> ELSE <<46, ts.micro, 43>>)

\* a < b for strings
RECURSIVE StrLess(_, _)
StrLess(a, b) ==
    IF a = <<>> THEN b # <<>>
    ELSE IF b = <<>> THEN FALSE
    ELSE IF Head(a) = Head(b) THEN StrLess(Tail(a), Tail(b))
    ELSE Head(a) < Head(b)

\* list.sort(key=...): x put into the sorted list behind the entries that
\* are not greater (the sort is stable)
RECURSIVE InsertByTs(_, _)
InsertByTs(sorted, x) ==
    IF sorted = <<>> THEN <<x>>
    ELSE IF StrLess(TsString(x.ts), TsString(Head(sorted).ts))
    THEN <<x>> \o sorted
    ELSE <<Head(sorted)>> \o InsertByTs(Tail(sorted), x)

RECURSIVE SortByTs(_)
SortByTs(history) ==
    IF history = <<>> THEN <<>>
    ELSE InsertByTs(SortByTs(SubSeq(history, 1, Len(history) - 1)),
                    history[Len(history)])

\* the artifact files that rglob("**/{host}/state-*.jsonl.gz") finds
ExportFiles(tree, host) ==
    {path \in DOMAIN tree.artifacts : path.dir.host = host}

\* get_history, lines 321-345: the documents of the files read, in the
\* order in which the files are visited
RECURSIVE ReadFiles(_, _, _, _)
ReadFiles(tree, files, from_ts, to_ts) ==
    IF files = <<>> THEN <<>>
    ELSE LET file_timestamp == FileTimestamp(Head(files).name)
             rest == ReadFiles(tree, Tail(files), from_ts, to_ts)
         IN  IF file_timestamp # None
                /\ InRange(file_timestamp[1], from_ts, to_ts)
             THEN <<tree.artifacts[Head(files)]>> \o rest
             ELSE rest

\* get_history(host, from_ts, to_ts), the files visited in the order files
get_history(tree, files, from_ts, to_ts) ==
    SortByTs(ReadFiles(tree, files, from_ts, to_ts))

\* the latest.json files that rglob("**/{host}/latest.json") finds
LatestFiles(tree, host) ==
    {export_path \in DOMAIN tree.latest : export_path.host = host}

\* get_latest_state with the file of the latest run timestamp taken
get_latest_state_by_ts(tree, host) ==
    IF LatestFiles(tree, host) = {} THEN None
    ELSE LET latest_file ==
                 CHOOSE f \in LatestFiles(tree, host) :
                     \A g \in LatestFiles(tree, host) :
                         ~StrLess(TsString(tree.latest[f].doc.ts),
                                  TsString(tree.latest[g].doc.ts))
         IN  IF tree.latest[latest_file].kind = "complete"
             THEN Some(tree.latest[latest_file].doc)
             ELSE None

\* get_latest_state(host), lines 289-308: the document of the latest.json
\* modified last, None when there is no such file or json.load fails
get_latest_state(tree, host) ==
    IF LatestFiles(tree, host) = {} THEN None
    ELSE LET latest_file ==
                 CHOOSE f \in LatestFiles(tree, host) :
                     \A g \in LatestFiles(tree, host) :
                         tree.latest[f].mtime >= tree.latest[g].mtime
         IN  IF tree.latest[latest_file].kind = "complete"
             THEN Some(tree.latest[latest_file].doc)
             ELSE None

\* the result of a run of host at the UTC time at
RunOf(host, at) ==
    [ timestamp |-> Timestamp("iso", at, Some(0)), host |-> host,
      run_id |-> <<at.hour, at.minute, at.second, at.micro>>,
      alerts |-> <<>> ]

\* runs of web1 at 12:30:07, at 12:30:07.000005, a minute later and the
\* evening before, and a run of security-monitor.local
QueriedResults ==
    { RunOf("web1", Datetime(SweepDay - 1, 12, 30, 7, 0)),
      RunOf("web1", Datetime(SweepDay - 1, 12, 30, 7, 5)),
      RunOf("web1", Datetime(SweepDay - 1, 12, 31, 0, 0)),
      RunOf("web1", Datetime(SweepDay - 2, 23, 59, 59, 5)),
      RunOf("security-monitor.local", Datetime(SweepDay - 1, 12, 30, 7, 0)) }

Hosts == {"web1", "security-monitor.local"}

\* the bounds asked for: none, or from and to both 12:30:07
QueryBounds ==
    { [from_ts |-> None, to_ts |-> None],
      [from_ts |-> Some(Datetime(SweepDay - 1, 12, 30, 7, 0)),
       to_ts |-> Some(Datetime(SweepDay - 1, 12, 30, 7, 0))] }

\* get_history(host, from_ts, to_ts)
GetHistory(host, from_ts, to_ts) ==
    /\ \E files \in Orderings(ExportFiles(disk, host)) :
         ret' = [ op |-> "get_history", host |-> host, from_ts |-> from_ts,
                  to_ts |-> to_ts,
                  value |-> get_history(disk, files, from_ts, to_ts) ]
    /\ UNCHANGED <<fired, disk, state, now, last_run, ops, pc, mem, obs, snap>>

\* get_latest_state(host)
LatestState(host) ==
    /\ ret' = [ op |-> "get_latest_state", host |-> host,
                value |-> get_latest_state(disk, host) ]
    /\ UNCHANGED <<fired, disk, state, now, last_run, ops, pc, mem, obs, snap>>

NextQuery ==
    \/ \E full_result \in QueriedResults :
         ExportState(full_result, "none", MaxQueryOps,
                     Logged(full_result, "none"))
    \/ \E host \in Hosts, bounds \in QueryBounds :
         GetHistory(host, bounds.from_ts, bounds.to_ts)
    \/ \E host \in Hosts : LatestState(host)

SpecQuery == InitSweep /\ [][NextQuery]_vars

-----------------------------------------------------------------------------

(* USBCollector.monitor_usb_changes applied to two lists of devices        *)

MaxDevices == 2

Device(vendor_id, product_id, name) ==
    [vendor_id |-> vendor_id, product_id |-> product_id, name |-> name]

\* str.lower() on the identifiers that occur here
Lower(s) == IF s = "046D" THEN "046d" ELSE s

\* _get_device_class: the table of known devices, looked up in lower case
_get_device_class(vendor_id, product_id) ==
    LET key == <<Lower(vendor_id), Lower(product_id)>>
    IN  CASE key \in {<<"1d6b", "0001">>, <<"1d6b", "0002">>} -> "hub"
          [] key \in {<<"046d", "c52b">>, <<"045e", "0040">>} -> "keyboard"
          [] key \in {<<"046d", "c534">>, <<"045e", "0047">>} -> "mouse"
          [] OTHER -> "unknown"

\* the set of (vendor_id, product_id) of a list of devices
IdentitySet(devices) ==
    {<<devices[i].vendor_id, devices[i].product_id>> : i \in DOMAIN devices}

\* next(d for d in devices if d has this identity): the first such device
FirstDevice(devices, identity) ==
    LET hits == { i \in DOMAIN devices :
                    <<devices[i].vendor_id, devices[i].product_id>> = identity }
    IN  devices[CHOOSE i \in hits : \A j \in hits : i <= j]

UsbEvent(action, devices, identity, t) ==
    [ action     |-> action,
      time       |-> IsoFormat(t),
      device     |-> FirstDevice(devices, identity).name,
      vendor_id  |-> identity[1],
      product_id |-> identity[2],
      class_name |-> _get_device_class(identity[1], identity[2]) ]

\* monitor_usb_changes with one event for every device of either list
\* whose identity the other list lacks
monitor_usb_changes_per_device(previous_devices, current_devices, added, removed, t) ==
    LET Events(action, devices, others) ==
            LET kept == SelectSeq(devices,
                            LAMBDA d : <<d.vendor_id, d.product_id>>
                                       \notin IdentitySet(others))
            IN  [ i \in DOMAIN kept |->
                    UsbEvent(action, devices,
                             <<kept[i].vendor_id, kept[i].product_id>>, t) ]
    IN  Events("add", current_devices, previous_devices)
        \o Events("remove", previous_devices, current_devices)

\* the events of monitor_usb_changes.  added and removed are the orders in
\* which the two difference sets are iterated
monitor_usb_changes(previous_devices, current_devices, added, removed, t) ==
    [ i \in DOMAIN added |-> UsbEvent("add", current_devices, added[i], t) ]
    \o [ i \in DOMAIN removed |->
           UsbEvent("remove", previous_devices, removed[i], t) ]

\* the devices lsusb may list: two with one identity under two names, one
\* whose identifier differs from theirs in case only, and another device
Devices ==
    { Device("046d", "c52b", "Logitech Mouse"),
      Device("046d", "c52b", "Logitech Receiver"),
      Device("046D", "c52b", "Logitech Mouse"),
      Device("045e", "0040", "Microsoft Keyboard") }

DeviceLists ==
    UNION { [1..n -> Devices] : n \in 0..MaxDevices }

\* a caller holding the devices of the previous and of the current poll
InitMonitor ==
    /\ disk = Absent
    /\ state = _get_empty_state
    /\ now = 0
    /\ ret = [op |-> "none"]
    /\ last_run = None
    /\ ops = 0
    /\ fired = <<>>
    /\ pc = [p \in Procs |-> "idle"]
    /\ mem = [p \in Procs |-> _get_empty_state]
    /\ obs = [p \in Procs |-> "none"]
    /\ snap \in [previous : DeviceLists, current : DeviceLists]

MonitorUsbChanges ==
    /\ ret.op = "none"
    /\ \E added \in Orderings(IdentitySet(snap.current)
                              \ IdentitySet(snap.previous)),
          removed \in Orderings(IdentitySet(snap.previous)
                                \ IdentitySet(snap.current)) :
         ret' = [ op |-> "monitor_usb_changes",
                  previous_devices |-> snap.previous,
                  current_devices |-> snap.current,
                  result |-> monitor_usb_changes(snap.previous, snap.current,
                                                 added, removed, now) ]
    /\ UNCHANGED <<fired, disk, state, now, last_run, ops, pc, mem, obs, snap>>

NextMonitor == MonitorUsbChanges

SpecMonitor == InitMonitor /\ [][NextMonitor]_vars

-----------------------------------------------------------------------------

(* The construction of a MonitoringOutput: the validation of its fields   *)

\* the fields of MonitoringOutput, none of which declares a default
OutputFields ==
    {"timestamp", "host", "run_id", "network", "system", "usb", "appsec",
     "diff"}

\* generate_run_id, a validator that runs before the type check of a
\* run_id that was passed: None becomes a new UUID
generate_run_id(v, uuid) == IF v = None THEN Some(uuid) ELSE v

\* set_timestamp, likewise for a timestamp that was passed
set_timestamp(v, t) == IF v = None THEN Some(t) ELSE v

\* the construction of a MonitoringOutput from keyword arguments, a
\* function from the names passed to Some(value) or None.  A field that
\* was not passed has no default to fall back on and is reported missing;
\* the validators run on the fields that were passed
MonitoringOutput(kwargs, uuid, t) ==
    LET missing == OutputFields \ DOMAIN kwargs
    IN  IF missing # {} THEN [raised |-> TRUE, missing |-> missing]
        ELSE [ raised |-> FALSE,
               value |->
                 [ f \in OutputFields |->
                     CASE f = "run_id" -> generate_run_id(kwargs[f], uuid)[1]
                       [] f = "timestamp" -> set_timestamp(kwargs[f], t)[1]
                       [] OTHER -> kwargs[f][1] ] ]

\* what uuid4() may return
Uuids == {"3f2b8c1e", "9d4a7e60"}

\* what a caller may pass for each field: valid sections, a host, a
\* timestamp or None, a run_id (an empty one too) or None
Passable(f) ==
    CASE f = "run_id" -> {None, Some(""), Some("run-1")}
      [] f = "timestamp" -> {None, Some("2024-01-15T10:30:00")}
      [] f = "host" -> {Some("test.local")}
      [] OTHER -> {Some("valid")}

Kwargs ==
    UNION { { kw \in [given -> UNION {Passable(f) : f \in given}] :
                \A f \in given : kw[f] \in Passable(f) } :
            given \in SUBSET OutputFields }

InitSchema ==
    /\ disk = Absent
    /\ state = _get_empty_state
    /\ now = 0
    /\ ret = [op |-> "none"]
    /\ last_run = None
    /\ ops = 0
    /\ fired = <<>>
    /\ pc = [p \in Procs |-> "idle"]
    /\ mem = [p \in Procs |-> _get_empty_state]
    /\ obs = [p \in Procs |-> "none"]
    /\ snap \in Kwargs

NewMonitoringOutput ==
    /\ ret.op = "none"
    /\ \E uuid \in Uuids :
         ret' = [ op |-> "MonitoringOutput", kwargs |-> snap ]
                @@ MonitoringOutput(snap, uuid, "now")
    /\ UNCHANGED <<fired, disk, state, now, last_run, ops, pc, mem, obs, snap>>

NextSchema == NewMonitoringOutput

SpecSchema == InitSchema /\ [][NextSchema]_vars

-----------------------------------------------------------------------------

(* export_state given run results that have the shape of a               *)
(* MonitoringOutput, as model_dump() returns them                         *)

\* a Port of the schema: proto, port and process (pid, listen_addr and
\* state are left out)
SchemaPort(proto, port, process) ==
    [proto |-> proto, port |-> port, process |-> process]

\* model_dump() of a MonitoringOutput of web1 on 14 June 2024 at 12:30:07:
\* a naive datetime, the open ports under network and the alerts under diff
\* (system, usb and appsec are left out)
DumpedOutput(run_id, open_ports, alerts) ==
    [ timestamp |-> Timestamp("datetime",
                              Datetime(SweepDay - 1, 12, 30, 7, 0), None),
      host |-> "web1",
      run_id |-> run_id,
      network |-> [open_ports |-> open_ports],
      diff |-> [alerts |-> alerts] ]

\* runs with no, one or two open ports, a UDP port among them, and with
\* no, one or two alerts
DumpedOutputs ==
    { DumpedOutput(run_id, open_ports, alerts) :
        run_id \in {"r1", "r2"},
        open_ports \in { <<>>, <<SchemaPort("udp", 53, "named")>>,
                         <<SchemaPort("tcp", 22, "sshd"),
                           SchemaPort("udp", 53, "named")>> },
        alerts \in { <<>>, <<CpuAlert>>,
                     <<CpuAlert, Alert("warn", "NEW_OPEN_PORT",
                                       [proto |-> "udp", port |-> 53])>> } }

NextProject ==
    \E full_result \in DumpedOutputs :
        ExportState(full_result, "none", MaxExports, Logged(full_result, "none"))

SpecProject == InitSweep /\ [][NextProject]_vars

-----------------------------------------------------------------------------

(* Properties *)

\* the step is a run of collect_all, a call of the named operation
RunStep == ret'.op = "collect_all" /\ ops' = ops + 1
CallStep(op) == ret'.op = op /\ ops' = ops + 1

\* the alerts of a run that carry one of the given codes
WithCode(alerts, codes) ==
    LET Has(a) == a.code \in codes IN SelectSeq(alerts, Has)

PortCodes == {"NEW_HIGH_RISK_PORT", "NEW_OPEN_PORT"}

Tcp22 == <<Port("tcp", 22)>>
Tcp22And23 == <<Port("tcp", 22), Port("tcp", 23)>>

\* the state that two invocations leave when p runs its whole cycle and
\* then q runs its own
SerialState(p, q) ==
    LET sp == snap[p][1]
        sq == snap[q][1]
        o1 == CHOOSE o \in NewPortOrders(_get_empty_state, sp.network) : TRUE
        s1 == collect_all(_get_empty_state, sp.network, sp.system, now, o1).state
        o2 == CHOOSE o \in NewPortOrders(s1, sq.network) : TRUE
    IN  collect_all(s1, sq.network, sq.system, now, o2).state

InCycle(p) == pc[p] \in {"loaded", "diffed", "opened", "flushed", "closed"}

\* C1: overlapping invocations are serialized: no invocation is inside its
\* load-diff-save cycle while the other is inside its own, and when both
\* have finished state.json holds the state that running the two cycles one
\* after the other leaves, so that no update of either is lost.
C1_CyclesSerialized ==
    /\ ~(InCycle(1) /\ InCycle(2))
    /\ (pc[1] = "done" /\ pc[2] = "done") =>
         /\ disk.kind = "complete"
         /\ disk.doc \in {JsonDump(SerialState(1, 2)), JsonDump(SerialState(2, 1))}

\* C2: save_state is atomic for readers: whoever reads state.json while
\* another process saves finds the complete previous content (or no file,
\* before the first save) or the complete new content, never an empty or
\* partly written file.
C2_ReaderSeesCompleteFile ==
    \A p \in Procs : obs[p] \in {"none", "absent", "complete"}

\* C3: from no prior state, a first run that observes {(tcp,22)} stores the
\* baseline {(tcp,22)} and emits no new-port alert; the second run, observing
\* {(tcp,22),(tcp,23)}, reports new_open_ports = {(tcp,23)} and emits exactly
\* one new-port alert, high, with code NEW_HIGH_RISK_PORT.
C3_EndToEnd ==
    /\ ( /\ ret.op = "collect_all"
         /\ ret.prior = _get_empty_state
         /\ ret.output.network.open_ports = Tcp22 )
       => /\ PortSet(_load_state(disk).baseline) = PortSet(Tcp22)
          /\ WithCode(ret.output.diff.alerts, PortCodes) = <<>>
    /\ ( /\ ret.op = "collect_all"
         /\ ops = 2
         /\ ret.prior.open_ports = Tcp22
         /\ ret.output.network.open_ports = Tcp22And23 )
       => /\ Range(ret.output.diff.new_open_ports) = {Port("tcp", 23)}
          /\ LET port_alerts == WithCode(ret.output.diff.alerts, PortCodes)
             IN  /\ Len(port_alerts) = 1
                 /\ port_alerts[1].severity = "high"
                 /\ port_alerts[1].code = "NEW_HIGH_RISK_PORT"

\* C4: after the first save_state on a fresh, empty state the persisted
\* baseline is the set of open ports of that first run.
C4_FirstSaveSetsBaseline ==
    ( /\ ret.op = "save_state"
      /\ ret.prior.last_update = None
      /\ ret.prior.baseline = <<>>
      /\ ret.new_data.has_network )
    => PortSet(_load_state(disk).baseline) = PortSet(ret.new_data.open_ports)

EngineOps ==
    { "save_state", "should_alert", "add_usb_event", "cleanup_old_data",
      "get_port_deltas", "get_interface_deltas" }

\* C5: once the baseline is populated, no operation of the engine
\* (save_state, should_alert, add_usb_event, cleanup_old_data,
\* get_port_deltas, get_interface_deltas) changes it, in memory or in the
\* file that save_state writes.
C5_BaselinePermanent ==
    [][ (state.baseline # <<>> /\ ret'.op \in EngineOps)
        => /\ state'.baseline = state.baseline
           /\ disk' # disk => _load_state(disk').baseline = state.baseline ]_vars

\* a later save_state, with other open ports, has run on a populated baseline
C5_Witness ==
    /\ ret.op = "save_state"
    /\ ret.prior.baseline # <<>>
    /\ ret.new_data.has_network
    /\ PortSet(ret.new_data.open_ports) # PortSet(ret.prior.baseline)
    /\ state.baseline = ret.prior.baseline
    /\ disk.kind = "complete"

\* C6: with the default TTL of one hour, should_alert(k, sev) returns true
\* on the first call for k, false on every later call made no more than one
\* hour (60 minutes) after the last call that returned true, whatever sev
\* is, and true again on the first call made more than one hour after it.
C6_DedupWindow ==
    [][ CallStep("should_alert")
        => LET k == ret'.alert_key
           IN  ret'.result = (k \notin DOMAIN fired \/ now - fired[k].at > 60) ]_vars

\* a key has fired, has been suppressed at least once, and has just fired
\* again after the window
C6_Witness ==
    /\ ret.op = "should_alert"
    /\ ret.result
    /\ ret.known
    /\ fired[ret.alert_key].suppressed >= 1
    /\ fired[ret.alert_key].at = ret.at

\* the measured values of the four threshold rules of a run
Measure(output, code) ==
    CASE code = "HIGH_CPU_LOAD" -> output.system.load1
      [] code = "HIGH_MEMORY_USAGE" -> output.system.used_mb
      [] code = "HIGH_DISK_USAGE" -> output.system.disk[1].used_pct
      [] code = "HIGH_IO_WAIT" -> output.system.iowait_pct

ThresholdCodes ==
    {"HIGH_CPU_LOAD", "HIGH_MEMORY_USAGE", "HIGH_DISK_USAGE", "HIGH_IO_WAIT"}

\* C7: when a resource is over its threshold in two runs less than one TTL
\* (60 minutes) apart, with different measured values, at most one alert for
\* that condition is emitted across the two runs.
C7_MagnitudesDeduplicated ==
    [][ (ret.op = "collect_all" /\ RunStep /\ ret'.at - ret.at < 60)
        => \A code \in ThresholdCodes :
             Measure(ret.output, code) # Measure(ret'.output, code)
             => Len(WithCode(ret.output.diff.alerts, {code}))
                + Len(WithCode(ret'.output.diff.alerts, {code})) <= 1 ]_vars

\* the alert keys that should_alert admitted in the run that wrote st at
\* time t
AdmittedAt(st, t) ==
    {k \in DOMAIN st.alerts : st.alerts[k].last_alert = IsoFormat(t)}

\* C8: every alert kept in diff.alerts was admitted by should_alert in that
\* run, and a new-port alert for one (proto, port) is not emitted again by a
\* later run inside the TTL window (60 minutes) of the earlier one.
C8_AlertsPassDeduplicator ==
    [][ RunStep
        => /\ Len(ret'.output.diff.alerts)
                <= Cardinality(AdmittedAt(state', ret'.at))
           /\ (ret.op = "collect_all" /\ ret'.at - ret.at <= 60)
              => Range(WithCode(ret.output.diff.alerts, PortCodes))
                 \cap Range(WithCode(ret'.output.diff.alerts, PortCodes)) = {} ]_vars

\* C9: the interface deltas are never negative: those get_interface_deltas
\* returns and those save_state stores are >= 0, also when the current
\* counter is below the stored one.
C9_DeltasNonNegative ==
    /\ \A n \in DOMAIN state.interfaces :
         state.interfaces[n].rx_delta >= 0 /\ state.interfaces[n].tx_delta >= 0
    /\ ret.op = "get_interface_deltas"
       => \A i \in DOMAIN ret.result :
            ret.result[i].rx_delta >= 0 /\ ret.result[i].tx_delta >= 0

\* C10: for an interface with no stored previous reading, rx_delta and
\* tx_delta are 0 whatever the current counters are, in what save_state
\* stores and in what get_interface_deltas returns.
C10_FirstObservationZero ==
    [][ /\ (CallStep("save_state") /\ ret'.new_data.has_network)
           => \A i \in DOMAIN ret'.new_data.interfaces :
                LET name == ret'.new_data.interfaces[i].name
                IN  name \notin DOMAIN state.interfaces
                    => /\ state'.interfaces[name].rx_delta = 0
                       /\ state'.interfaces[name].tx_delta = 0
        /\ CallStep("get_interface_deltas")
           => \A i \in DOMAIN ret'.result :
                ret'.result[i].name \notin DOMAIN state.interfaces
                => ret'.result[i].rx_delta = 0 /\ ret'.result[i].tx_delta = 0 ]_vars

\* save_state has stored the first reading of an interface, with counters
\* above zero
C10_Witness ==
    /\ ret.op = "save_state"
    /\ ret.new_data.has_network
    /\ ret.prior.interfaces = <<>>
    /\ \E n \in DOMAIN state.interfaces :
         /\ state.interfaces[n].rx_bytes > 0
         /\ state.interfaces[n].tx_bytes > 0
         /\ state.interfaces[n].rx_delta = 0
         /\ state.interfaces[n].tx_delta = 0

\* C11: get_port_deltas returns as new the ports of the current list that
\* are not in the baseline and as closed the baseline ports that are not
\* in the current list, each port once however often the lists name it;
\* when both lists name the same ports the two results are empty, and no
\* port is ever in both results.
C11_PortDeltas ==
    ret.op = "get_port_deltas"
    => LET C == Range(ret.current_ports)
           B == Range(state.baseline)
           new == ret.result.new_open_ports
           closed == ret.result.closed_ports
       IN  /\ new = C \ B
           /\ closed = B \ C
           /\ C = B => new = {} /\ closed = {}
           /\ new \cap closed = {}

\* the current list names one port twice, a port is new and one is closed
C11_Witness ==
    /\ ret.op = "get_port_deltas"
    /\ Len(ret.current_ports) = 2
    /\ ret.current_ports[1] = ret.current_ports[2]
    /\ Cardinality(ret.result.new_open_ports) = 1
    /\ ret.result.closed_ports # {}

\* the current list names the baseline's ports, in another order
C11_WitnessEqual ==
    /\ ret.op = "get_port_deltas"
    /\ Len(ret.current_ports) = 2
    /\ ret.current_ports # state.baseline
    /\ Range(ret.current_ports) = Range(state.baseline)
    /\ ret.result.new_open_ports = {}

\* whether a file holds a state document
WellFormed(file) == file.kind = "complete" /\ HasKeys(JsonLoad(file.doc))

\* C12: when state.json is absent, unreadable or of malformed content, the
\* StateManager constructed holds the fresh empty state and no later
\* operation of the run faults on it.
C12_LoadNeverFails ==
    (ret.op = "main" /\ ~WellFormed(ret.file))
    => ret.prior = _get_empty_state /\ ret.raised # "KeyError"

C14_SaveFailureSurfaced ==
    (ret.op = "main" /\ ret.raised = "IOError")
    => /\ ret.exit # 0
       /\ ret.printed \cap {"Collection completed", "alert summary"} = {}

\* the write of state.json failed in a run that had computed its alerts,
\* after an earlier run had completed
C14_Witness ==
    /\ ret.op = "main"
    /\ ret.raised = "IOError"
    /\ ret.prior.last_update # None
    /\ disk.kind = "partial"
    /\ state.alerts # <<>>
    /\ ret.exit = 1

\* C15: over the calls of should_alert with a TTL that is not negative,
\* the last_alert stored for a key never moves back; a call made when the
\* clock reads earlier than the stored last_alert is suppressed and leaves
\* the table as it was.
C15_LastAlertMonotone ==
    (ret.op = "should_alert" /\ ret.ttl_hours >= 0)
    => /\ \A k \in DOMAIN ret.prior.alerts :
            /\ k \in DOMAIN state.alerts
            /\ FromIsoFormat(state.alerts[k].last_alert)
               >= FromIsoFormat(ret.prior.alerts[k].last_alert)
       /\ ( /\ ret.alert_key \in DOMAIN ret.prior.alerts
            /\ ret.at < FromIsoFormat(ret.prior.alerts[ret.alert_key].last_alert) )
          => ~ret.result /\ state.alerts = ret.prior.alerts

\* should_alert was called with a TTL of zero when the clock read earlier
\* than the stored last_alert, and suppressed the alert
C15_Witness ==
    /\ ret.op = "should_alert"
    /\ ret.ttl_hours = 0
    /\ ret.alert_key \in DOMAIN state.alerts
    /\ ret.at < FromIsoFormat(state.alerts[ret.alert_key].last_alert)
    /\ ~ret.result

\* C16: cleanup_old_data(days) removes the alert entries whose last_alert
\* precedes now - days and no other, and leaves the entries it keeps, the
\* baseline and the interface counters as they were.
C16_CleanupExact ==
    ret.op = "cleanup_old_data"
    => /\ DOMAIN state.alerts =
            { k \in DOMAIN ret.prior.alerts :
                ~(FromIsoFormat(ret.prior.alerts[k].last_alert)
                  < ret.at - ret.days * 1440) }
       /\ \A k \in DOMAIN state.alerts : state.alerts[k] = ret.prior.alerts[k]
       /\ state.baseline = ret.prior.baseline
       /\ state.interfaces = ret.prior.interfaces

\* cleanup_old_data has removed one of two entries, on a state with a
\* baseline
C16_Witness ==
    /\ ret.op = "cleanup_old_data"
    /\ Cardinality(DOMAIN ret.prior.alerts) = 2
    /\ Cardinality(DOMAIN state.alerts) = 1
    /\ state.baseline # <<>>

\* C17: at the end of every completed run, the alert table that state.json
\* holds has no entry whose last_alert is more than 30 days before the run.
C17_OldEntriesPurged ==
    (ret.op = "main" /\ ret.exit = 0)
    => \A k \in DOMAIN _load_state(disk).alerts :
         FromIsoFormat(_load_state(disk).alerts[k].last_alert) >= ret.at - 30 * 1440

\* C18: after n calls of add_usb_event the log holds the min(n, 100) most
\* recent events, in the order in which they were added, and never more
\* than 100.
C18_UsbLogCapped ==
    ret.op = "add_usb_event"
    => LET n == Len(ret.added)
           kept == IF n < 100 THEN n ELSE 100
       IN  /\ Len(state.usb_events) = kept
           /\ \A i \in 1..kept : state.usb_events[i] = ret.added[n - kept + i]

\* more than 100 events were added, the log holds 100
C18_Witness ==
    /\ ret.op = "add_usb_event"
    /\ Len(ret.added) > 100
    /\ Len(state.usb_events) = 100
    /\ state.usb_events[1] # ret.added[1]

\* C19: every entry of new_open_ports yields exactly one candidate alert:
\* severity high and code NEW_HIGH_RISK_PORT when its port number is one of
\* 21, 23, 135, 139, 445, 1433, 3389, whatever the protocol, and severity
\* warn and code NEW_OPEN_PORT otherwise.
C19_OneAlertPerNewPort ==
    ret.op = "_calculate_diffs"
    => LET new == ret.diff.new_open_ports
           port_alerts == WithCode(ret.diff.alerts, PortCodes)
       IN  /\ Len(port_alerts) = Len(new)
           /\ \A i \in DOMAIN new :
                LET risky == new[i].port \in {21, 23, 135, 139, 445, 1433, 3389}
                    a == port_alerts[i]
                IN  /\ a.evidence = [port |-> new[i].port, proto |-> new[i].proto]
                    /\ a.severity = IF risky THEN "high" ELSE "warn"
                    /\ a.code = IF risky THEN "NEW_HIGH_RISK_PORT"
                                ELSE "NEW_OPEN_PORT"

\* two UDP ports are new, one of them with a high-risk number
C19_Witness ==
    /\ ret.op = "_calculate_diffs"
    /\ Range(ret.diff.new_open_ports) = {Port("udp", 23), Port("udp", 53)}
    /\ Len(ret.diff.alerts) >= 2
    /\ {ret.diff.alerts[1].severity, ret.diff.alerts[2].severity} = {"high", "warn"}

\* the value a threshold rule measures, in hundredths
Observed(system_data, code) ==
    CASE code = "HIGH_CPU_LOAD" -> system_data.load1
      [] code = "HIGH_MEMORY_USAGE" ->
             (system_data.used_mb * 10000) \div system_data.total_mb
      [] code = "HIGH_DISK_USAGE" -> system_data.disk[1].used_pct
      [] code = "HIGH_IO_WAIT" -> system_data.iowait_pct

\* its threshold: 2.0, 90.0, 85.0 and 20.0
Limit(code) ==
    CASE code = "HIGH_CPU_LOAD" -> 200
      [] code = "HIGH_MEMORY_USAGE" -> 9000
      [] code = "HIGH_DISK_USAGE" -> 8500
      [] code = "HIGH_IO_WAIT" -> 2000

\* the evidence field that carries the measured value
EvidenceField(code) ==
    CASE code = "HIGH_CPU_LOAD" -> "load1"
      [] code = "HIGH_MEMORY_USAGE" -> "used_pct"
      [] code = "HIGH_DISK_USAGE" -> "used_pct"
      [] code = "HIGH_IO_WAIT" -> "iowait_pct"

\* the key under which the rule asks the deduplicator
RuleKey(system_data, code) ==
    CASE code = "HIGH_CPU_LOAD" -> CpuKey(system_data.load1)
      [] code = "HIGH_MEMORY_USAGE" -> MemoryKey(Observed(system_data, code))
      [] code = "HIGH_DISK_USAGE" ->
             DiskKey(system_data.disk[1].mount, system_data.disk[1].used_pct)
      [] code = "HIGH_IO_WAIT" -> IowaitKey(system_data.iowait_pct)

\* whether the deduplicator holds the key back at time t
Suppressed(st, alert_key, t) ==
    /\ alert_key \in DOMAIN st.alerts
    /\ t - FromIsoFormat(st.alerts[alert_key].last_alert) <= 60

\* C20: for each resource rule (CPU load, memory, disk, I/O wait), a value
\* above its threshold that the deduplicator does not hold back yields one
\* alert of severity warn whose evidence holds the measured value and the
\* threshold; a value not above the threshold yields no alert.
C20_ThresholdRules ==
    ret.op = "_calculate_diffs"
    => \A code \in ThresholdCodes :
         LET value == Observed(ret.system, code)
             found == WithCode(ret.diff.alerts, {code})
         IN  /\ ( /\ value > Limit(code)
                  /\ ~Suppressed(ret.prior, RuleKey(ret.system, code), ret.at) )
                => /\ Len(found) = 1
                   /\ found[1].severity = "warn"
                   /\ found[1].evidence[EvidenceField(code)] = value
                   /\ found[1].evidence.threshold = Limit(code)
             /\ value <= Limit(code) => found = <<>>

\* every resource was over its threshold and each rule gave its alert
C20_Witness ==
    /\ ret.op = "_calculate_diffs"
    /\ \A code \in ThresholdCodes :
         /\ Observed(ret.system, code) > Limit(code)
         /\ Len(WithCode(ret.diff.alerts, {code})) = 1

\* every resource was exactly at its threshold and no rule gave an alert
C20_WitnessAtThreshold ==
    /\ ret.op = "_calculate_diffs"
    /\ \A code \in ThresholdCodes : Observed(ret.system, code) = Limit(code)
    /\ WithCode(ret.diff.alerts, ThresholdCodes) = <<>>

\* C21: when memory collection failed and total_mb is 0, alert generation
\* does not raise: _calculate_diffs returns, with the alerts of the other
\* rules.
C21_UnavailableSkipped ==
    ( /\ ret.op \in {"_calculate_diffs", "_calculate_diffs raised"}
      /\ ret.system.total_mb = 0 )
    => ret.op = "_calculate_diffs"


\* the rule groups of _calculate_diffs, lines 101-117
RuleGroups == {"port", "system", "policy", "service"}

\* acc after one rule group has been evaluated on it
EvaluateGroup(group, acc, network_data, system_data, t, order) ==
    LET r == CASE group = "port" ->
                      [state |-> acc.state, alerts |-> PortAlerts(order)]
               [] group = "system" ->
                      _generate_system_alerts(acc.state, system_data, t)
               [] group = "policy" ->
                      _generate_policy_alerts(acc.state, network_data, t)
               [] group = "service" ->
                      _generate_service_alerts(acc.state, network_data.services, t)
    IN  [state |-> r.state, alerts |-> acc.alerts \o r.alerts]

\* acc after the rule groups have been evaluated in the order of groups
RECURSIVE EvaluateGroups(_, _, _, _, _, _)
EvaluateGroups(groups, acc, network_data, system_data, t, order) ==
    IF groups = <<>> THEN acc
    ELSE EvaluateGroups(Tail(groups),
                        EvaluateGroup(Head(groups), acc, network_data,
                                      system_data, t, order),
                        network_data, system_data, t, order)

\* C22: for any snapshot and any starting suppression table, the set of
\* surviving alerts and the resulting suppression table are the same in
\* whatever order the rule groups (new port, system resource, network
\* policy, service) are evaluated.
C22_OrderInsensitive ==
    ret.op = "_calculate_diffs" =>
        \A groups \in Orderings(RuleGroups) :
            LET d == EvaluateGroups(groups,
                                    [state |-> ret.prior, alerts |-> <<>>],
                                    ret.network, ret.system, ret.at,
                                    ret.diff.new_open_ports)
            IN  /\ Range(d.alerts) = Range(ret.diff.alerts)
                /\ d.state = state

\* a call on a table that already held the keys of the resource rules:
\* the port, policy and service groups gave alerts and the resource group,
\* over its thresholds, gave none
C22_Witness ==
    /\ ret.op = "_calculate_diffs"
    /\ ret.prior.alerts # <<>>
    /\ \A code \in ThresholdCodes : Observed(ret.system, code) > Limit(code)
    /\ WithCode(ret.diff.alerts, ThresholdCodes) = <<>>
    /\ WithCode(ret.diff.alerts, PortCodes) # <<>>
    /\ WithCode(ret.diff.alerts, {"POLICY_WIFI_ENABLED"}) # <<>>
    /\ WithCode(ret.diff.alerts, {"HIGH_RISK_SERVICE_ACTIVE"}) # <<>>

\* the UTC calendar date of the timestamp of a run
UtcDate(full_result) ==
    Civil(EnsureUtc(ParseTimestamp(full_result.timestamp)[1]).day)

\* the call of export_state wrote its artifact
Exported == ret.op = "export_state" /\ ret.value # None

\* C23: export_state writes the artifact of a run of host h at time t
\* under {root}/{YYYY}/{MM}/{DD}/{h}/, the calendar year, month and day of
\* t in UTC, so that all runs of one host on one UTC day share one
\* partition directory.
C23_PartitionByUtcDate ==
    Exported =>
        ret.value[1].path.dir =
            [ year |-> UtcDate(ret.full_result).year,
              month |-> UtcDate(ret.full_result).month,
              day |-> UtcDate(ret.full_result).day,
              host |-> ret.full_result.host ]


\* the minutes from Day0 to the timestamp that an artifact records
StampMinutes(doc) ==
    Ordinal(doc.ts.date.year, doc.ts.date.month, doc.ts.date.day) * 1440
    + doc.ts.hour * 60 + doc.ts.minute

\* the artifact at path, there before the sweep that has just returned, is
\* of a run older than the retention period
OlderThanHorizon(path) ==
    StampMinutes(ret.prior.artifacts[path]) < ret.at - state.retention_days * 1440

\* the days, counted back from the sweep, of the runs whose artifacts were
\* there before it
DaysBack ==
    { SweepDay - Ordinal(ret.prior.artifacts[path].ts.date.year,
                         ret.prior.artifacts[path].ts.date.month,
                         ret.prior.artifacts[path].ts.date.day) :
        path \in DOMAIN ret.prior.artifacts }

\* C24: apply_retention removes every day partition that export_state made
\* for a run older than now minus retention_days and returns the number of
\* partitions removed: with exports taken 40, 10 and 1 days ago and
\* retention_days = 30 it removes exactly the partition of 40 days ago and
\* returns 1.
C24_RetentionRemovesOld ==
    ret.op = "apply_retention" =>
        /\ \A path \in DOMAIN ret.prior.artifacts :
             OlderThanHorizon(path) => path \notin DOMAIN disk.artifacts
        /\ ( /\ Cardinality(DOMAIN ret.prior.artifacts) = 3
             /\ DaysBack = {40, 10, 1} )
           => /\ ret.value = 1
              /\ \A path \in DOMAIN ret.prior.artifacts :
                   OlderThanHorizon(path) <=> path \notin DOMAIN disk.artifacts

\* C25: an exported artifact is deleted only by the retention sweep and
\* only once it is older than the horizon: export_state removes none, and
\* after apply_retention every artifact whose run timestamp is within
\* retention_days of the time of the sweep is still present.
C25_RecentArtifactsKept ==
    /\ ret.op = "export_state" =>
         DOMAIN ret.prior.artifacts \subseteq DOMAIN disk.artifacts
    /\ ret.op = "apply_retention" =>
         \A path \in DOMAIN ret.prior.artifacts :
             ~OlderThanHorizon(path) => path \in DOMAIN disk.artifacts


\* the UTC second of the timestamp of a run
UtcSecond(full_result) ==
    LET t == EnsureUtc(ParseTimestamp(full_result.timestamp)[1])
    IN  <<t.day, t.hour, t.minute, t.second>>

\* how many of the calls that returned a path were for the run id
TimesExported(run_id) ==
    Cardinality({i \in DOMAIN fired : fired[i].run_id = run_id})

\* the path that the call for full_result returned: a function of the
\* result alone
PathOf(full_result) ==
    export_state(DefaultExporter, EmptyTree, full_result, "none").value[1].path

\* the data rows of the manifest of the directory for the run id
RowsOf(export_path, run_id) ==
    LET rows == disk.manifest[export_path]
    IN  {i \in DOMAIN rows : ~rows[i].header /\ rows[i].run_id = run_id}

\* C26: exporting two runs with distinct run ids for the same host within
\* the same second produces two distinct artifact files, whose names
\* differ by the run id, and exactly one manifest data row for each.
C26_SameSecondDistinctFiles ==
    \A i, j \in DOMAIN fired :
        ( /\ fired[i].host = fired[j].host
          /\ UtcSecond(fired[i]) = UtcSecond(fired[j])
          /\ fired[i].run_id # fired[j].run_id
          /\ TimesExported(fired[i].run_id) = 1
          /\ TimesExported(fired[j].run_id) = 1 )
        => LET a == PathOf(fired[i])
               b == PathOf(fired[j])
           IN  /\ a # b
               /\ [a.name EXCEPT !.run_id = ""] = [b.name EXCEPT !.run_id = ""]
               /\ {a, b} \subseteq DOMAIN disk.artifacts
               /\ disk.artifacts[a].run_id = fired[i].run_id
               /\ disk.artifacts[b].run_id = fired[j].run_id
               /\ Cardinality(RowsOf(a.dir, fired[i].run_id)) = 1
               /\ Cardinality(RowsOf(b.dir, fired[j].run_id)) = 1

\* the runs r1 and r2 of one second have both been exported, once each
C26_Witness ==
    /\ Len(fired) = 2
    /\ fired[1].run_id = "r1" /\ fired[2].run_id = "r2"
    /\ UtcSecond(fired[1]) = UtcSecond(fired[2])
    /\ Cardinality(DOMAIN disk.artifacts) = 2

\* C27: an export artifact is written once and never updated in place: no
\* call of export_state modifies or replaces the content of an artifact
\* file created by an earlier call, a repeated export of a run with the
\* same host, timestamp second and run id included.
C27_ArtifactsImmutable ==
    ret.op = "export_state" =>
        \A path \in DOMAIN ret.prior.artifacts :
            /\ path \in DOMAIN disk.artifacts
            /\ disk.artifacts[path] = ret.prior.artifacts[path]

\* the body of the call of export_state that has just returned ended in
\* an exception
BodyRaised ==
    ExportBody(ret.self, ret.prior, ret.full_result, ret.fault).raised # "none"

\* C30: export_state never raises past its boundary: for every input and
\* every failure at any step after it starts (a missing timestamp, host or
\* run_id field, an unparseable timestamp, directory creation, the
\* compressed write, the rename of latest, the manifest append) it returns
\* None.
C30_NeverRaises ==
    ret.op = "export_state" =>
        /\ ret.raised = "none"
        /\ BodyRaised => ret.value = None
        /\ ( \/ ret.fault # "none"
             \/ ret.full_result \in BadResults ) => BodyRaised

\* the manifest append failed after the artifact and latest.json had been
\* written, and None was returned
C30_Witness ==
    /\ ret.op = "export_state"
    /\ ret.fault = "manifest"
    /\ BodyRaised
    /\ ret.value = None
    /\ ret.prior.artifacts = <<>> /\ disk.artifacts # <<>>


\* C28: the update of the latest pointer is atomic without any lock: a
\* reader of latest.json never observes a half-written document at any
\* point of an export_state call, overlapping calls for the same host
\* partition included; it always sees the complete projection of some
\* export.
C28_LatestNeverHalfWritten ==
    /\ \A export_path \in DOMAIN disk.latest :
         disk.latest[export_path].kind = "complete"
    /\ ret.op = "get_latest_state" => ret.read = "complete"

\* the rows of the manifest of the partition of the two runs
OverlapRows ==
    IF OverlapPath \in DOMAIN disk.manifest
    THEN disk.manifest[OverlapPath] ELSE <<>>

\* the data rows of a manifest, in the order of the file
DataRows(rows) ==
    LET IsData(row) == ~row.header IN SelectSeq(rows, IsData)

\* C29: the manifest is append-only with a single header: after any
\* sequence of export_state calls into one host partition, overlapping
\* invocations included, manifest.csv is exactly one header row followed
\* by one data row per export that reached the manifest step, in
\* completion order.
C29_ManifestSingleHeader ==
    OverlapRows # <<>> =>
        /\ Head(OverlapRows) = Header
        /\ \A i \in 2..Len(OverlapRows) : ~OverlapRows[i].header
        /\ LET Ours(row) == row.run_id # "r0"
               ours == SelectSeq(DataRows(OverlapRows), Ours)
           IN  /\ Len(ours) = Len(fired)
               /\ \A i \in DOMAIN ours : ours[i].run_id = <<"run", fired[i]>>


\* C31: when exporting is disabled, export_state returns None and has no
\* side effects: no partition directory, artifact file, latest.json or
\* manifest.csv is created or modified by the call.
C31_DisabledNoEffect ==
    (ret.op = "export_state" /\ ~ret.self.enabled) =>
        /\ ret.value = None
        /\ ret.raised = "none"
        /\ disk = ret.prior

\* a disabled exporter was given a good result on a partition that an
\* enabled one had populated
C31_Witness ==
    /\ ret.op = "export_state"
    /\ ~ret.self.enabled
    /\ ret.full_result \in GoodResults /\ ret.fault = "none"
    /\ ret.prior.artifacts # <<>>
    /\ ret.value = None


\* the run timestamp of record a is not later than that of record b
NotLater(a, b) ==
    LET sa == StampMinutes(a) * 60 + a.ts.second
        sb == StampMinutes(b) * 60 + b.ts.second
    IN  sa < sb \/ (sa = sb /\ a.ts.micro <= b.ts.micro)

\* C32: get_history returns its records sorted by run timestamp ascending,
\* whatever the enumeration order of the artifact files and whatever
\* partitions they lie in, timestamps with and without a fractional-second
\* part included.
C32_HistorySorted ==
    ret.op = "get_history" =>
        \A i, j \in DOMAIN ret.value :
            i < j => NotLater(ret.value[i], ret.value[j])

\* a history of three records of two partitions, among them the two of
\* one second, with and without a fraction
C32_Witness ==
    /\ ret.op = "get_history"
    /\ Len(ret.value) = 3
    /\ ret.value[1].ts.micro = 0 /\ ret.value[2].ts.micro = 5
    /\ ret.value[1].ts.second = ret.value[2].ts.second
    /\ ret.value[3].ts.minute # ret.value[1].ts.minute


\* the successful exports of the host, in the order of the calls
ExportsOf(host) ==
    LET Mine(full_result) == full_result.host = host
    IN  SelectSeq(fired, Mine)

\* the projection that export_state writes for the result
ProjectionOf(full_result) ==
    _serialize_minimal_state(
        full_result, EnsureUtc(ParseTimestamp(full_result.timestamp)[1]))

WithinBounds(doc, from_ts, to_ts) ==
    LET Bound(t) == [ts |-> isoformat(t)]
    IN  /\ from_ts = None \/ NotLater(Bound(from_ts[1]), doc)
        /\ to_ts = None \/ NotLater(doc, Bound(to_ts[1]))

\* C38: for every host name h, names containing hyphens such as
\* security-monitor.local included, and with no time bounds, get_history(h)
\* returns one record for each artifact that export_state wrote for h and
\* that retention has not removed; with bounds it returns exactly those
\* whose run timestamp t satisfies from <= t <= to.
C38_HistoryComplete ==
    ret.op = "get_history" =>
        LET wanted == { path \in ExportFiles(disk, ret.host) :
                          WithinBounds(disk.artifacts[path], ret.from_ts,
                                       ret.to_ts) }
        IN  /\ Len(ret.value) = Cardinality(wanted)
            /\ Range(ret.value) = {disk.artifacts[path] : path \in wanted}


\* C34: the delta calculators are pure and the snapshot is never mutated:
\* get_port_deltas and get_interface_deltas leave the persistent state and
\* the port and interface records passed to them unchanged, and save_state
\* leaves the run data passed to it unchanged.
C34_ArgumentsUntouched ==
    /\ ret.op = "get_port_deltas" => state = ret.prior
    /\ ret.op = "get_interface_deltas" =>
           /\ state = ret.prior
           /\ ret.passed_after = ret.passed
    /\ ret.op = "save_state" => ret.passed_after = ret.passed


\* the events of the result with this action and this identity
EventsFor(action, identity) ==
    { i \in DOMAIN ret.result :
        /\ ret.result[i].action = action
        /\ <<ret.result[i].vendor_id, ret.result[i].product_id>> = identity }

\* C35: monitor_usb_changes(previous, current) returns exactly one "add"
\* event for each identity (vendor_id, product_id) present in current and
\* absent from previous, exactly one "remove" event for each identity
\* present in previous and absent from current, and nothing else; for
\* identical device lists it returns no event.
C35_OneEventPerIdentity ==
    ret.op = "monitor_usb_changes" =>
        LET prev == IdentitySet(ret.previous_devices)
            curr == IdentitySet(ret.current_devices)
        IN  /\ \A id \in curr \ prev : Cardinality(EventsFor("add", id)) = 1
            /\ \A id \in prev \ curr : Cardinality(EventsFor("remove", id)) = 1
            /\ \A i \in DOMAIN ret.result :
                 \/ i \in UNION {EventsFor("add", id) : id \in curr \ prev}
                 \/ i \in UNION {EventsFor("remove", id) : id \in prev \ curr}
            /\ ret.previous_devices = ret.current_devices => ret.result = <<>>

\* the current list holds two devices of one identity that the previous
\* list lacks, the previous list a device that is gone: one add and one
\* remove are returned
C35_Witness ==
    /\ ret.op = "monitor_usb_changes"
    /\ Len(ret.current_devices) = 2
    /\ Cardinality(IdentitySet(ret.current_devices)) = 1
    /\ Len(ret.result) = 2
    /\ ret.result[1].action = "add"
    /\ ret.result[2].action = "remove"


\* C36: constructing a MonitoringOutput without providing run_id, all
\* other sections valid, succeeds and yields an output whose run_id is
\* auto-generated: non-null and non-empty.
C36_RunIdGenerated ==
    ( /\ ret.op = "MonitoringOutput"
      /\ DOMAIN ret.kwargs = OutputFields \ {"run_id"}
      /\ ret.kwargs["timestamp"] # None )
    => /\ ~ret.raised
       /\ ret.value["run_id"] \in Uuids
       /\ ret.value["run_id"] # ""


\* C37: state is unchanged on a failed save.  If save_state fails while
\* writing, state.json still holds the complete content of the last
\* successful save, so that the next invocation loads the previous
\* baseline, counters and suppression table rather than an empty state.
C37_FailedSaveKeepsFile ==
    (ret.op = "main" /\ ret.raised = "IOError" /\ WellFormed(ret.file))
    => /\ disk = ret.file
       /\ _load_state(disk) = ret.prior


\* C39: the interface deltas reported in a run's result are the computed
\* ones.  For every interface seen in the previous saved run, the rx_delta
\* and tx_delta in the MonitoringOutput returned by collect_all equal this
\* run's rx_bytes and tx_bytes minus the counters stored by the previous
\* run, and the counters stored after the run equal this run's readings.
C39_OutputDeltasComputed ==
    ret.op = "collect_all" =>
        LET out == OutputInterfaces(ret.output)
            before == ret.prior.interfaces
        IN  \A i \in DOMAIN out :
              /\ out[i].name \in DOMAIN before =>
                   /\ out[i].rx_delta
                        = out[i].rx_bytes - before[out[i].name].rx_bytes
                   /\ out[i].tx_delta
                        = out[i].tx_bytes - before[out[i].name].tx_bytes
              /\ state.interfaces[out[i].name].rx_bytes = out[i].rx_bytes
              /\ state.interfaces[out[i].name].tx_bytes = out[i].tx_bytes


\* C40: the exported minimal projection is faithful to the run result it
\* projects.  For a run result shaped like MonitoringOutput, the
\* projection's alerts list and the manifest row's alerts_count have one
\* entry per alert the run produced (diff.alerts), and each projected open
\* port carries the same protocol (tcp or udp) and port number as the
\* corresponding open port of the run.
C40_ProjectionFaithful ==
    (Exported /\ "diff" \in DOMAIN ret.full_result) =>
        LET path == ret.value[1].path
            doc == disk.artifacts[path]
            rows == disk.manifest[path.dir]
            produced == ret.full_result.diff.alerts
            open_ports == ret.full_result.network.open_ports
        IN  /\ Len(doc.alerts) = Len(produced)
            /\ rows[Len(rows)].alerts_count = Len(produced)
            /\ Len(doc.net.open_ports) = Len(open_ports)
            /\ \A i \in DOMAIN open_ports :
                 /\ doc.net.open_ports[i].proto = open_ports[i].proto
                 /\ doc.net.open_ports[i].port = open_ports[i].port

====
